---- MODULE Spec2Model ----
(***************************************************************************)
(* Model of the position sizing engine AdvancedKellyOptimizer of           *)
(* src/src/agent_pipeline/utils/kelly_optimizer.py.                        *)
(*                                                                         *)
(* Numbers.  The engine computes on Python floats.  The model computes on  *)
(* exact rationals <<n, d>> (d > 0, lowest terms), i.e. on the real-number *)
(* meaning of the float expressions; rounding error of the binary format   *)
(* is modelled in one place only, the scaling of a correlated batch        *)
(* (scale_kellys), where each product is rounded to a grid.                *)
(* 0.95 ** weeks_excess is modelled for whole numbers of                  *)
(* weeks only, so the horizons of the model exceed 2160 h by multiples of  *)
(* 168 h.                                                                  *)
(*                                                                         *)
(* calculate_optimal_position is modelled stage by stage: pc is the        *)
(* position of the call in the method body, the other variables are the    *)
(* engine's fields, the arguments and the locals of the call.              *)
(***************************************************************************)
EXTENDS Integers, Sequences, FiniteSets, TLC

----------------------------------------------------------------------------
(* Exact rational arithmetic standing for Python's float arithmetic.       *)

Abs(x) == IF x < 0 THEN -x ELSE x

RECURSIVE Gcd(_, _)
Gcd(a, b) == IF b = 0 THEN a ELSE Gcd(b, a % b)

Norm(n, d) ==
    LET s == IF d < 0 THEN -1 ELSE 1
        g == Gcd(Abs(n), Abs(d))
    IN  <<(s * n) \div g, (s * d) \div g>>

R(n, d) == Norm(n, d)

Zero == <<0, 1>>
One == <<1, 1>>

Add(a, b) == Norm(a[1] * b[2] + b[1] * a[2], a[2] * b[2])
Sub(a, b) == Norm(a[1] * b[2] - b[1] * a[2], a[2] * b[2])
Mul(a, b) ==
    LET g1 == Gcd(Abs(a[1]), b[2])
        g2 == Gcd(Abs(b[1]), a[2])
    IN  <<(a[1] \div g1) * (b[1] \div g2), (a[2] \div g2) * (b[2] \div g1)>>
Div(a, b) == Mul(a, Norm(b[2], b[1]))

(* The sign of a - b, by comparing whole parts and then, reciprocally, the  *)
(* fractional parts: no product of a numerator and a denominator is formed. *)
RECURSIVE Cmp(_, _)
Cmp(a, b) ==
    LET fa == a[1] \div a[2]
        fb == b[1] \div b[2]
        ra == a[1] % a[2]
        rb == b[1] % b[2]
    IN  IF fa < fb THEN -1
        ELSE IF fa > fb THEN 1
        ELSE IF ra = 0 /\ rb = 0 THEN 0
        ELSE IF ra = 0 THEN -1
        ELSE IF rb = 0 THEN 1
        ELSE Cmp(<<b[2], rb>>, <<a[2], ra>>)

Lt(a, b) == Cmp(a, b) < 0
Le(a, b) == Cmp(a, b) <= 0
Gt(a, b) == Lt(b, a)
Ge(a, b) == Le(b, a)

Max2(a, b) == IF Gt(b, a) THEN b ELSE a
Min2(a, b) == IF Lt(b, a) THEN b ELSE a

(* a ** k in ten-thousandths, rounded to the nearest after every factor: a  *)
(* float power is rounded too, far finer.  0.95 ** k is exact up to k = 2   *)
(* and within 0.0001 * k of the float beyond.                               *)
RECURSIVE PowFixed(_, _)
PowFixed(a, k) ==
    IF k = 0 THEN 10000
    ELSE (2 * PowFixed(a, k - 1) * a[1] + a[2]) \div (2 * a[2])

----------------------------------------------------------------------------
(* Values of the model. *)

(* None, for an argument or a result that is not there. *)
None == "None"
(* A local of the call that no statement has assigned yet. *)
NotRun == <<>>
NoRecommendation == "NotRun"

FULL == "full"
FRACTIONAL_50 == "half"
FRACTIONAL_25 == "quarter"
ADAPTIVE == "adaptive"
KellyMode == {FULL, FRACTIONAL_50, FRACTIONAL_25, ADAPTIVE}

(* Bounds of the model: longest existing_positions list, and the largest   *)
(* number of whole weeks by which a horizon exceeds three months.          *)
MaxPositions == 1
MaxWeeks == 1

Probabilities == {R(0, 1), R(1, 4), R(11, 20), R(9, 10), R(3, 2)}
Prices == {R(0, 1), R(1, 5), R(1, 2), R(99, 100), R(1, 1)}
Confidences == {R(11, 20), R(17, 20), R(1, 1), R(11, 10)}
Liquidities == {R(-1, 1), R(500, 1), R(5000, 1)}
Spreads == {R(-1, 100), R(1, 50), R(1, 10)}
Horizons == {-1, 720} \cup {2160 + 168 * k : k \in 1..MaxWeeks}
Bankrolls == {R(1000, 1)}

(* Every estimate against every price, and an estimate above a near-certain price. *)
EstimatesAndPrices == (Probabilities \X Prices) \cup {<<R(199, 200), R(99, 100)>>}

(* The opportunity of demo_kelly_optimizer. *)
DemoOpportunity ==
    [probability_estimate |-> R(72, 100), market_price |-> R(35, 100),
     confidence_level |-> R(85, 100), liquidity |-> R(5000, 1),
     bid_ask_spread |-> R(2, 100), time_to_resolution |-> 720,
     market_id |-> "btc_100k_2024"]

(* An illiquid market with a wide spread that resolves twelve weeks after *)
(* the three months that carry no time decay.                             *)
LongHorizonOpportunity ==
    [probability_estimate |-> R(9, 10), market_price |-> R(1, 2),
     confidence_level |-> R(1, 1), liquidity |-> R(500, 1),
     bid_ask_spread |-> R(3, 10), time_to_resolution |-> 2160 + 168 * 12,
     market_id |-> "m1"]

(* An estimate exactly 0.20 above the price, in a deep and tight market. *)
BoundaryEdgeOpportunity ==
    [probability_estimate |-> R(7, 10), market_price |-> R(1, 2),
     confidence_level |-> R(1, 1), liquidity |-> R(5000, 1),
     bid_ask_spread |-> R(1, 50), time_to_resolution |-> 720,
     market_id |-> "m1"]

(* An estimate whose confidence-adjusted Kelly lies just below the 0.2 of   *)
(* the ADAPTIVE table.                                                      *)
AdaptiveTierOpportunity ==
    [probability_estimate |-> R(2, 5), market_price |-> R(1, 5),
     confidence_level |-> R(4, 5), liquidity |-> R(5000, 1),
     bid_ask_spread |-> R(1, 50), time_to_resolution |-> 720,
     market_id |-> "m1"]

MarketOpportunity ==
    {[probability_estimate |-> pp[1], market_price |-> pp[2],
      confidence_level |-> c, liquidity |-> l,
      bid_ask_spread |-> s, time_to_resolution |-> t,
      market_id |-> "m1"] :
        pp \in EstimatesAndPrices, c \in Confidences, l \in Liquidities,
        s \in Spreads, t \in Horizons}
    \cup {DemoOpportunity, LongHorizonOpportunity, BoundaryEdgeOpportunity,
          AdaptiveTierOpportunity}

(* A position is a dict; 'position_size' may be missing from it. *)
PositionDicts == {[position_size |-> R(7, 20)], [position_size |-> R(9, 10)], [market_id |-> "m0"]}
PositionLists == UNION {[1..n -> PositionDicts] : n \in 0..MaxPositions}
(* Optional[List[Dict]]: None, or a list of dicts. *)
NoPositions == [is_none |-> TRUE, items |-> <<>>]
ExistingPositions == {NoPositions} \cup {[is_none |-> FALSE, items |-> l] : l \in PositionLists}

----------------------------------------------------------------------------
(* The engine: AdvancedKellyOptimizer.__init__ and its pure methods.  Every *)
(* method takes the engine (self) as its first parameter, as in the source. *)

_build_confidence_curve ==
    LET anchors == {<<R(1, 2), R(0, 1)>>, <<R(3, 5), R(1, 5)>>, <<R(7, 10), R(1, 2)>>,
                    <<R(4, 5), R(4, 5)>>, <<R(9, 10), R(19, 20)>>, <<R(1, 1), R(1, 1)>>}
    IN  [x \in {a[1] : a \in anchors} |-> (CHOOSE a \in anchors : a[1] = x)[2]]

__init__(kelly_mode, max_position_size, min_confidence_threshold, max_correlation_exposure, stress_test) ==
    [kelly_mode |-> kelly_mode,
     max_position_size |-> max_position_size,
     min_confidence_threshold |-> min_confidence_threshold,
     max_correlation_exposure |-> max_correlation_exposure,
     drawdown_protection |-> TRUE,
     stress_test |-> stress_test,
     volatility_penalty |-> R(4, 5),
     liquidity_penalty |-> R(9, 10),
     time_decay_factor |-> R(19, 20),
     confidence_curve |-> _build_confidence_curve]

(* _validate_opportunity without its check of the liquidity. *)
_validate_opportunity_no_liquidity(self, opportunity) ==
    IF ~(Lt(Zero, opportunity.probability_estimate) /\ Lt(opportunity.probability_estimate, One))
    THEN FALSE
    ELSE IF ~(Lt(Zero, opportunity.market_price) /\ Lt(opportunity.market_price, One))
    THEN FALSE
    ELSE IF ~(Le(Zero, opportunity.confidence_level) /\ Le(opportunity.confidence_level, One))
    THEN FALSE
    ELSE TRUE

_validate_opportunity(self, opportunity) ==
    IF ~(Lt(Zero, opportunity.probability_estimate) /\ Lt(opportunity.probability_estimate, One))
    THEN FALSE
    ELSE IF ~(Lt(Zero, opportunity.market_price) /\ Lt(opportunity.market_price, One))
    THEN FALSE
    ELSE IF ~(Le(Zero, opportunity.confidence_level) /\ Le(opportunity.confidence_level, One))
    THEN FALSE
    ELSE IF Lt(opportunity.liquidity, Zero)
    THEN FALSE
    ELSE TRUE

(* _calculate_base_kelly returning kelly without max(kelly, 0.0). *)
_calculate_base_kelly_unclamped(self, opportunity) ==
    LET p == opportunity.probability_estimate
        price == opportunity.market_price
    IN  IF Le(price, Zero) \/ Ge(price, One)
        THEN Zero
        ELSE LET odds == Sub(Div(One, price), One)
                 q == Sub(One, p)
             IN  IF Le(odds, Zero)
                 THEN Zero
                 ELSE Div(Sub(Mul(p, odds), q), odds)

(* _calculate_base_kelly with p and q exchanged in the formula. *)
_calculate_base_kelly_swapped(self, opportunity) ==
    LET p == opportunity.probability_estimate
        price == opportunity.market_price
    IN  IF Le(price, Zero) \/ Ge(price, One)
        THEN Zero
        ELSE LET odds == Sub(Div(One, price), One)
                 q == Sub(One, p)
             IN  IF Le(odds, Zero)
                 THEN Zero
                 ELSE Max2(Div(Sub(Mul(q, odds), p), odds), Zero)

_calculate_base_kelly(self, opportunity) ==
    LET p == opportunity.probability_estimate
        price == opportunity.market_price
    IN  IF Le(price, Zero) \/ Ge(price, One)
        THEN Zero
        ELSE LET odds == Sub(Div(One, price), One)
                 q == Sub(One, p)
             IN  IF Le(odds, Zero)
                 THEN Zero
                 ELSE Max2(Div(Sub(Mul(p, odds), q), odds), Zero)

(* _calculate_expected_value returning the gross payout p / price. *)
_calculate_expected_value_gross(self, opportunity) ==
    LET p == opportunity.probability_estimate
        price == opportunity.market_price
    IN  IF Le(price, Zero) \/ Ge(price, One)
        THEN Zero
        ELSE Div(p, price)

_calculate_expected_value(self, opportunity) ==
    LET p == opportunity.probability_estimate
        price == opportunity.market_price
    IN  IF Le(price, Zero) \/ Ge(price, One)
        THEN Zero
        ELSE Sub(Div(p, price), One)

(* sorted(curve.keys()) *)
RECURSIVE sorted(_)
sorted(S) ==
    IF S = {} THEN <<>>
    ELSE LET m == CHOOSE x \in S : \A y \in S : Le(x, y)
         IN  <<m>> \o sorted(S \ {m})

(* _interpolate without the division by x2 - x1. *)
RECURSIVE _interpolate_unscaled(_, _, _, _)
_interpolate_unscaled(curve, confidence_levels, confidence, i) ==
    IF i > Len(confidence_levels) - 1
    THEN Zero
    ELSE IF Le(confidence_levels[i], confidence) /\ Le(confidence, confidence_levels[i + 1])
    THEN LET x1 == confidence_levels[i]
             x2 == confidence_levels[i + 1]
             y1 == curve[x1]
             y2 == curve[x2]
         IN  Add(y1, Mul(Sub(y2, y1), Sub(confidence, x1)))
    ELSE _interpolate_unscaled(curve, confidence_levels, confidence, i + 1)

(* The interpolation loop of _get_confidence_multiplier, from index i on. *)
RECURSIVE _interpolate(_, _, _, _)
_interpolate(curve, confidence_levels, confidence, i) ==
    IF i > Len(confidence_levels) - 1
    THEN Zero
    ELSE IF Le(confidence_levels[i], confidence) /\ Le(confidence, confidence_levels[i + 1])
    THEN LET x1 == confidence_levels[i]
             x2 == confidence_levels[i + 1]
             y1 == curve[x1]
             y2 == curve[x2]
         IN  Add(y1, Div(Mul(Sub(y2, y1), Sub(confidence, x1)), Sub(x2, x1)))
    ELSE _interpolate(curve, confidence_levels, confidence, i + 1)

_get_confidence_multiplier(self, confidence) ==
    LET curve == self.confidence_curve
        confidence_levels == sorted(DOMAIN curve)
    IN  IF Le(confidence, confidence_levels[1])
        THEN curve[confidence_levels[1]]
        ELSE IF Ge(confidence, confidence_levels[Len(confidence_levels)])
        THEN curve[confidence_levels[Len(confidence_levels)]]
        ELSE _interpolate(curve, confidence_levels, confidence, 1)

(* _apply_confidence_adjustment without the test of min_confidence_threshold. *)
_apply_confidence_adjustment_no_threshold(self, kelly, confidence) ==
    LET confidence_multiplier == _get_confidence_multiplier(self, confidence)
    IN  <<Mul(kelly, confidence_multiplier), Sub(One, confidence_multiplier)>>

(* Returns <<adjusted_kelly, penalty>>. *)
_apply_confidence_adjustment(self, kelly, confidence) ==
    IF Lt(confidence, self.min_confidence_threshold)
    THEN <<Zero, One>>
    ELSE LET confidence_multiplier == _get_confidence_multiplier(self, confidence)
         IN  <<Mul(kelly, confidence_multiplier), Sub(One, confidence_multiplier)>>

(* base ** exponent, for the whole-number exponents of the model. *)
Power(base, exponent) ==
    IF exponent[2] = 1 /\ exponent[1] >= 0
    THEN R(PowFixed(base, exponent[1]), 10000)
    ELSE CHOOSE x \in {} : TRUE

(* _apply_risk_adjustments without the floor max(spread_mult, 0.5). *)
_apply_risk_adjustments_no_floor(self, kelly, opportunity) ==
    LET low_liquidity == Lt(opportunity.liquidity, R(1000, 1))
        liquidity_mult == self.liquidity_penalty
        k1 == IF low_liquidity THEN Mul(kelly, liquidity_mult) ELSE kelly
        p1 == IF low_liquidity THEN Add(Zero, Sub(One, liquidity_mult)) ELSE Zero
        high_spread == Gt(opportunity.bid_ask_spread, R(5, 100))
        spread_mult == Sub(One, Mul(opportunity.bid_ask_spread, R(2, 1)))
        k2 == IF high_spread THEN Mul(k1, spread_mult) ELSE k1
        p2 == IF high_spread THEN Add(p1, Sub(One, spread_mult)) ELSE p1
        long_term == opportunity.time_to_resolution > 2160
        weeks_excess == R(opportunity.time_to_resolution - 2160, 168)
        time_mult == Power(self.time_decay_factor, weeks_excess)
        k3 == IF long_term THEN Mul(k2, time_mult) ELSE k2
        p3 == IF long_term THEN Add(p2, Sub(One, time_mult)) ELSE p2
    IN  <<k3, p3>>

(* Returns <<adjusted_kelly, total_penalty>>. *)
_apply_risk_adjustments(self, kelly, opportunity) ==
    LET low_liquidity == Lt(opportunity.liquidity, R(1000, 1))
        liquidity_mult == self.liquidity_penalty
        k1 == IF low_liquidity THEN Mul(kelly, liquidity_mult) ELSE kelly
        p1 == IF low_liquidity THEN Add(Zero, Sub(One, liquidity_mult)) ELSE Zero
        high_spread == Gt(opportunity.bid_ask_spread, R(5, 100))
        spread_mult == Max2(Sub(One, Mul(opportunity.bid_ask_spread, R(2, 1))), R(1, 2))
        k2 == IF high_spread THEN Mul(k1, spread_mult) ELSE k1
        p2 == IF high_spread THEN Add(p1, Sub(One, spread_mult)) ELSE p1
        long_term == opportunity.time_to_resolution > 2160
        weeks_excess == R(opportunity.time_to_resolution - 2160, 168)
        time_mult == Power(self.time_decay_factor, weeks_excess)
        k3 == IF long_term THEN Mul(k2, time_mult) ELSE k2
        p3 == IF long_term THEN Add(p2, Sub(One, time_mult)) ELSE p2
    IN  <<k3, p3>>

(* _apply_kelly_mode_scaling with the adaptive tiers starting at 0.2 and 0.1 themselves. *)
_apply_kelly_mode_scaling_inclusive(self, kelly) ==
    IF self.kelly_mode = FULL THEN kelly
    ELSE IF self.kelly_mode = FRACTIONAL_50 THEN Mul(kelly, R(1, 2))
    ELSE IF self.kelly_mode = FRACTIONAL_25 THEN Mul(kelly, R(1, 4))
    ELSE IF self.kelly_mode = ADAPTIVE
    THEN IF Ge(kelly, R(2, 10)) THEN Mul(kelly, R(1, 4))
         ELSE IF Ge(kelly, R(1, 10)) THEN Mul(kelly, R(1, 2))
         ELSE Mul(kelly, R(3, 4))
    ELSE kelly

(* _apply_kelly_mode_scaling dividing by the fraction of the fixed modes. *)
_apply_kelly_mode_scaling_divided(self, kelly) ==
    IF self.kelly_mode = FULL THEN kelly
    ELSE IF self.kelly_mode = FRACTIONAL_50 THEN Div(kelly, R(1, 2))
    ELSE IF self.kelly_mode = FRACTIONAL_25 THEN Div(kelly, R(1, 4))
    ELSE IF self.kelly_mode = ADAPTIVE
    THEN IF Gt(kelly, R(2, 10)) THEN Mul(kelly, R(1, 4))
         ELSE IF Gt(kelly, R(1, 10)) THEN Mul(kelly, R(1, 2))
         ELSE Mul(kelly, R(3, 4))
    ELSE kelly

_apply_kelly_mode_scaling(self, kelly) ==
    IF self.kelly_mode = FULL THEN kelly
    ELSE IF self.kelly_mode = FRACTIONAL_50 THEN Mul(kelly, R(1, 2))
    ELSE IF self.kelly_mode = FRACTIONAL_25 THEN Mul(kelly, R(1, 4))
    ELSE IF self.kelly_mode = ADAPTIVE
    THEN IF Gt(kelly, R(2, 10)) THEN Mul(kelly, R(1, 4))
         ELSE IF Gt(kelly, R(1, 10)) THEN Mul(kelly, R(1, 2))
         ELSE Mul(kelly, R(3, 4))
    ELSE kelly

(* pos.get('position_size', 0) *)
PositionSize(pos) == IF "position_size" \in DOMAIN pos THEN pos.position_size ELSE Zero

RECURSIVE SumPositions(_)
SumPositions(positions) ==
    IF Len(positions) = 0 THEN Zero
    ELSE Add(PositionSize(Head(positions)), SumPositions(Tail(positions)))

(* _apply_portfolio_constraints without the hard cap. *)
_apply_portfolio_constraints_uncapped(self, kelly, opportunity, existing_positions, bankroll) ==
    IF ~existing_positions.is_none /\ Len(existing_positions.items) > 0
    THEN LET total_exposure == SumPositions(existing_positions.items)
         IN  IF Gt(total_exposure, self.max_correlation_exposure)
             THEN LET reduction_factor ==
                          Max2(R(1, 2), Sub(One, Sub(total_exposure, self.max_correlation_exposure)))
                  IN  Mul(kelly, reduction_factor)
             ELSE kelly
    ELSE kelly

(* _apply_portfolio_constraints with the hard cap applied after the throttle. *)
_apply_portfolio_constraints_cap_last(self, kelly, opportunity, existing_positions, bankroll) ==
    LET throttled ==
            IF ~existing_positions.is_none /\ Len(existing_positions.items) > 0
            THEN LET total_exposure == SumPositions(existing_positions.items)
                 IN  IF Gt(total_exposure, self.max_correlation_exposure)
                     THEN LET reduction_factor ==
                                  Max2(R(1, 2), Sub(One, Sub(total_exposure, self.max_correlation_exposure)))
                          IN  Mul(kelly, reduction_factor)
                     ELSE kelly
            ELSE kelly
    IN  Min2(throttled, self.max_position_size)

_apply_portfolio_constraints(self, kelly, opportunity, existing_positions, bankroll) ==
    LET capped == Min2(kelly, self.max_position_size)
    IN  IF ~existing_positions.is_none /\ Len(existing_positions.items) > 0
        THEN LET total_exposure == SumPositions(existing_positions.items)
             IN  IF Gt(total_exposure, self.max_correlation_exposure)
                 THEN LET reduction_factor ==
                              Max2(R(1, 2), Sub(One, Sub(total_exposure, self.max_correlation_exposure)))
                      IN  Mul(capped, reduction_factor)
                 ELSE capped
        ELSE capped

(* stress_scenarios whose first scenario takes 0.10 off the estimate. *)
stress_scenarios_mild ==
    <<[prob_error |-> R(-1, 10), spread_increase |-> R(2, 1)],
      [prob_error |-> R(-15, 100), spread_increase |-> R(3, 2)],
      [prob_error |-> R(-1, 10), spread_increase |-> R(6, 5)]>>

stress_scenarios ==
    <<[prob_error |-> R(-2, 10), spread_increase |-> R(2, 1)],
      [prob_error |-> R(-15, 100), spread_increase |-> R(3, 2)],
      [prob_error |-> R(-1, 10), spread_increase |-> R(6, 5)]>>

(* The opportunity that one pass of the stress loop builds. *)
stressed_opp(opportunity, scenario) ==
    [probability_estimate |-> Max2(R(1, 100), Add(opportunity.probability_estimate, scenario.prob_error)),
     market_price |-> opportunity.market_price,
     confidence_level |-> Mul(opportunity.confidence_level, R(8, 10)),
     liquidity |-> Mul(opportunity.liquidity, R(7, 10)),
     bid_ask_spread |-> Mul(opportunity.bid_ask_spread, scenario.spread_increase),
     time_to_resolution |-> opportunity.time_to_resolution,
     market_id |-> opportunity.market_id]

(* The stress loop from scenario i on, worst_case_kelly being the minimum so far. *)
RECURSIVE _stress_loop(_, _, _, _)
_stress_loop(self, worst_case_kelly, opportunity, i) ==
    IF i > Len(stress_scenarios)
    THEN worst_case_kelly
    ELSE LET stressed_kelly ==
                 Mul(_calculate_base_kelly(self, stressed_opp(opportunity, stress_scenarios[i])), R(1, 2))
         IN  _stress_loop(self, Min2(worst_case_kelly, stressed_kelly), opportunity, i + 1)

(* _stress_test_position whose loop misses the first scenario. *)
_stress_test_position_skip_first(self, kelly, opportunity) ==
    Mul(_stress_loop(self, kelly, opportunity, 2), R(8, 10))

(* _stress_test_position dividing the worst case by 0.8. *)
_stress_test_position_divided(self, kelly, opportunity) ==
    Div(_stress_loop(self, kelly, opportunity, 1), R(8, 10))

_stress_test_position(self, kelly, opportunity) ==
    Mul(_stress_loop(self, kelly, opportunity, 1), R(8, 10))

(* _generate_recommendation with the sides of the large position swapped. *)
_generate_recommendation_inverted(self, kelly, expected_value, opportunity) ==
    IF Lt(kelly, R(1, 100)) \/ Le(expected_value, Zero)
    THEN "HOLD"
    ELSE IF Ge(kelly, R(5, 100))
    THEN IF Gt(opportunity.probability_estimate, opportunity.market_price)
         THEN "BUY_NO" ELSE "BUY_YES"
    ELSE "SMALL_BUY"

(* _generate_recommendation holding on expected_value < 0 only. *)
_generate_recommendation_strict(self, kelly, expected_value, opportunity) ==
    IF Lt(kelly, R(1, 100)) \/ Lt(expected_value, Zero)
    THEN "HOLD"
    ELSE IF Ge(kelly, R(5, 100))
    THEN IF Gt(opportunity.probability_estimate, opportunity.market_price)
         THEN "BUY_YES" ELSE "BUY_NO"
    ELSE "SMALL_BUY"

_generate_recommendation(self, kelly, expected_value, opportunity) ==
    IF Lt(kelly, R(1, 100)) \/ Le(expected_value, Zero)
    THEN "HOLD"
    ELSE IF Ge(kelly, R(5, 100))
    THEN IF Gt(opportunity.probability_estimate, opportunity.market_price)
         THEN "BUY_YES" ELSE "BUY_NO"
    ELSE "SMALL_BUY"

(* The parts of the audit string, in order; the formatted numbers are left out. *)
_generate_reasoning(self, base_kelly, confidence_penalty, risk_penalty, final_kelly, opportunity) ==
    <<"Base Kelly">>
    \o (IF Gt(confidence_penalty, Zero) THEN <<"Confidence adjustment">> ELSE <<>>)
    \o (IF Gt(risk_penalty, Zero) THEN <<"Risk adjustments">> ELSE <<>>)
    \o <<"Kelly mode", "Final position">>
    \o (IF Lt(final_kelly, R(1, 100)) THEN <<"Position too small - recommend HOLD">> ELSE <<>>)

KellyResult(kelly_fraction, adjusted_fraction, expected_value, confidence_adjustment, risk_adjustment, final_position_size, recommendation, reasoning) ==
    [kelly_fraction |-> kelly_fraction,
     adjusted_fraction |-> adjusted_fraction,
     expected_value |-> expected_value,
     confidence_adjustment |-> confidence_adjustment,
     risk_adjustment |-> risk_adjustment,
     final_position_size |-> final_position_size,
     recommendation |-> recommendation,
     reasoning |-> reasoning]

----------------------------------------------------------------------------
(* State: the engine, the arguments and locals of the running call of       *)
(* calculate_optimal_position, its position pc and its return value.        *)

VARIABLES self, pc, opportunity, bankroll, existing_positions,
          base_kelly, expected_value, confidence_adjusted_kelly, confidence_penalty,
          risk_adjusted_kelly, risk_penalty, mode_adjusted_kelly, final_kelly,
          recommendation, reasoning, result

(* The call of calculate_multi_market_kelly that is running: its position,  *)
(* its arguments, the loop index and its locals.  results is the dict, as   *)
(* the list of its items in insertion order.                                *)
VARIABLES multi_pc, opportunities, correlations, batch_bankroll,
          i, individual_kellys, total_kelly, results

(* Evaluations that run concurrently on the one engine: the frame of each   *)
(* thread, with the fields of the single call above.                        *)
VARIABLE frames

multi_vars == <<multi_pc, opportunities, correlations, batch_bankroll,
                i, individual_kellys, total_kelly, results>>
outer == <<multi_vars, frames>>

args == <<opportunity, bankroll, existing_positions>>
locals == <<base_kelly, expected_value, confidence_adjusted_kelly, confidence_penalty,
            risk_adjusted_kelly, risk_penalty, mode_adjusted_kelly, final_kelly,
            recommendation, reasoning>>
vars == <<self, pc, args, locals, result, multi_vars, frames>>

(* Configurations the engine is constructed with. *)
MaxPositionSizes == {R(15, 100), R(1, 2)}
MinConfidenceThresholds == {R(6, 10)}
MaxCorrelationExposures == {R(3, 10)}

(* No call is running. *)
NoCall ==
    /\ pc = "idle"
    /\ opportunity = None /\ bankroll = None /\ existing_positions = NoPositions
    /\ base_kelly = NotRun /\ expected_value = NotRun
    /\ confidence_adjusted_kelly = NotRun /\ confidence_penalty = NotRun
    /\ risk_adjusted_kelly = NotRun /\ risk_penalty = NotRun
    /\ mode_adjusted_kelly = NotRun /\ final_kelly = NotRun
    /\ recommendation = NoRecommendation /\ reasoning = NotRun
    /\ result = None
    /\ multi_pc = "idle"
    /\ opportunities = <<>> /\ correlations = None /\ batch_bankroll = None
    /\ i = 0 /\ individual_kellys = <<>> /\ total_kelly = NotRun /\ results = <<>>
    /\ frames = <<>>

Init ==
    /\ self \in {__init__(m, mps, mct, mce, st) :
                    m \in KellyMode, mps \in MaxPositionSizes,
                    mct \in MinConfidenceThresholds, mce \in MaxCorrelationExposures,
                    st \in BOOLEAN}
    /\ NoCall

(* A caller invokes calculate_optimal_position(opportunity, bankroll, existing_positions). *)
Call ==
    /\ pc = "idle"
    /\ multi_pc = "idle"
    /\ \E opp \in MarketOpportunity, b \in Bankrolls, ep \in ExistingPositions :
          /\ opportunity' = opp
          /\ bankroll' = b
          /\ existing_positions' = ep
    /\ pc' = "validate"
    /\ UNCHANGED <<outer, self, locals, result>>

ValidateReject ==
    /\ pc = "validate"
    /\ ~_validate_opportunity(self, opportunity)
    /\ result' = KellyResult(Zero, Zero, Zero, Zero, Zero, Zero, "HOLD",
                             <<"Invalid opportunity parameters">>)
    /\ pc' = "done"
    /\ UNCHANGED <<outer, self, args, locals>>

ValidateAccept ==
    /\ pc = "validate"
    /\ _validate_opportunity(self, opportunity)
    /\ pc' = "base_kelly"
    /\ UNCHANGED <<outer, self, args, locals, result>>

BaseKelly ==
    /\ pc = "base_kelly"
    /\ base_kelly' = _calculate_base_kelly(self, opportunity)
    /\ pc' = "expected_value"
    /\ UNCHANGED <<outer, self, args, expected_value, confidence_adjusted_kelly, confidence_penalty,
                   risk_adjusted_kelly, risk_penalty, mode_adjusted_kelly, final_kelly,
                   recommendation, reasoning, result>>

ExpectedValue ==
    /\ pc = "expected_value"
    /\ expected_value' = _calculate_expected_value(self, opportunity)
    /\ pc' = "confidence"
    /\ UNCHANGED <<outer, self, args, base_kelly, confidence_adjusted_kelly, confidence_penalty,
                   risk_adjusted_kelly, risk_penalty, mode_adjusted_kelly, final_kelly,
                   recommendation, reasoning, result>>

ConfidenceAdjustment ==
    /\ pc = "confidence"
    /\ LET r == _apply_confidence_adjustment(self, base_kelly, opportunity.confidence_level)
       IN  /\ confidence_adjusted_kelly' = r[1]
           /\ confidence_penalty' = r[2]
    /\ pc' = "risk"
    /\ UNCHANGED <<outer, self, args, base_kelly, expected_value,
                   risk_adjusted_kelly, risk_penalty, mode_adjusted_kelly, final_kelly,
                   recommendation, reasoning, result>>

RiskAdjustments ==
    /\ pc = "risk"
    /\ LET r == _apply_risk_adjustments(self, confidence_adjusted_kelly, opportunity)
       IN  /\ risk_adjusted_kelly' = r[1]
           /\ risk_penalty' = r[2]
    /\ pc' = "mode"
    /\ UNCHANGED <<outer, self, args, base_kelly, expected_value, confidence_adjusted_kelly,
                   confidence_penalty, mode_adjusted_kelly, final_kelly,
                   recommendation, reasoning, result>>

(* ModeScaling taking the fraction from before the risk stage. *)
ModeScaling_before_risk ==
    /\ pc = "mode"
    /\ mode_adjusted_kelly' = _apply_kelly_mode_scaling(self, confidence_adjusted_kelly)
    /\ pc' = "portfolio"
    /\ UNCHANGED <<outer, self, args, base_kelly, expected_value, confidence_adjusted_kelly,
                   confidence_penalty, risk_adjusted_kelly, risk_penalty, final_kelly,
                   recommendation, reasoning, result>>

ModeScaling ==
    /\ pc = "mode"
    /\ mode_adjusted_kelly' = _apply_kelly_mode_scaling(self, risk_adjusted_kelly)
    /\ pc' = "portfolio"
    /\ UNCHANGED <<outer, self, args, base_kelly, expected_value, confidence_adjusted_kelly,
                   confidence_penalty, risk_adjusted_kelly, risk_penalty, final_kelly,
                   recommendation, reasoning, result>>

PortfolioConstraints ==
    /\ pc = "portfolio"
    /\ final_kelly' = _apply_portfolio_constraints(self, mode_adjusted_kelly, opportunity,
                                                   existing_positions, bankroll)
    /\ pc' = "stress"
    /\ UNCHANGED <<outer, self, args, base_kelly, expected_value, confidence_adjusted_kelly,
                   confidence_penalty, risk_adjusted_kelly, risk_penalty, mode_adjusted_kelly,
                   recommendation, reasoning, result>>

(* StressTest with the last scenario's shocks written into the caller's opportunity. *)
StressTest_in_place ==
    /\ pc = "stress"
    /\ self.stress_test
    /\ final_kelly' = _stress_test_position(self, final_kelly, opportunity)
    /\ opportunity' = stressed_opp(opportunity, stress_scenarios[Len(stress_scenarios)])
    /\ pc' = "recommendation"
    /\ UNCHANGED <<outer, self, bankroll, existing_positions, base_kelly, expected_value,
                   confidence_adjusted_kelly, confidence_penalty, risk_adjusted_kelly,
                   risk_penalty, mode_adjusted_kelly, recommendation, reasoning, result>>

StressTest ==
    /\ pc = "stress"
    /\ self.stress_test
    /\ final_kelly' = _stress_test_position(self, final_kelly, opportunity)
    /\ pc' = "recommendation"
    /\ UNCHANGED <<outer, self, args, base_kelly, expected_value, confidence_adjusted_kelly,
                   confidence_penalty, risk_adjusted_kelly, risk_penalty, mode_adjusted_kelly,
                   recommendation, reasoning, result>>

SkipStressTest ==
    /\ pc = "stress"
    /\ ~self.stress_test
    /\ pc' = "recommendation"
    /\ UNCHANGED <<outer, self, args, locals, result>>

Recommendation ==
    /\ pc = "recommendation"
    /\ recommendation' = _generate_recommendation(self, final_kelly, expected_value, opportunity)
    /\ pc' = "reasoning"
    /\ UNCHANGED <<outer, self, args, base_kelly, expected_value, confidence_adjusted_kelly,
                   confidence_penalty, risk_adjusted_kelly, risk_penalty, mode_adjusted_kelly,
                   final_kelly, reasoning, result>>

Reasoning ==
    /\ pc = "reasoning"
    /\ reasoning' = _generate_reasoning(self, base_kelly, confidence_penalty, risk_penalty,
                                        final_kelly, opportunity)
    /\ pc' = "return"
    /\ UNCHANGED <<outer, self, args, base_kelly, expected_value, confidence_adjusted_kelly,
                   confidence_penalty, risk_adjusted_kelly, risk_penalty, mode_adjusted_kelly,
                   final_kelly, recommendation, result>>

(* Return with adjusted_fraction taken before the portfolio and stress stages. *)
Return_mode_adjusted ==
    /\ pc = "return"
    /\ result' = KellyResult(base_kelly, mode_adjusted_kelly, expected_value, confidence_penalty,
                             risk_penalty, final_kelly, recommendation, reasoning)
    /\ pc' = "done"
    /\ UNCHANGED <<outer, self, args, locals>>

Return ==
    /\ pc = "return"
    /\ result' = KellyResult(base_kelly, final_kelly, expected_value, confidence_penalty,
                             risk_penalty, final_kelly, recommendation, reasoning)
    /\ pc' = "done"
    /\ UNCHANGED <<outer, self, args, locals>>

(* The caller has taken the result; the frame of the call is gone. *)
Finish ==
    /\ pc = "done"
    /\ multi_pc = "idle"
    /\ pc' = "idle"
    /\ opportunity' = None /\ bankroll' = None /\ existing_positions' = NoPositions
    /\ base_kelly' = NotRun /\ expected_value' = NotRun
    /\ confidence_adjusted_kelly' = NotRun /\ confidence_penalty' = NotRun
    /\ risk_adjusted_kelly' = NotRun /\ risk_penalty' = NotRun
    /\ mode_adjusted_kelly' = NotRun /\ final_kelly' = NotRun
    /\ recommendation' = NoRecommendation /\ reasoning' = NotRun
    /\ result' = None
    /\ UNCHANGED <<outer, self>>

Next ==
    \/ Call
    \/ ValidateReject
    \/ ValidateAccept
    \/ BaseKelly
    \/ ExpectedValue
    \/ ConfidenceAdjustment
    \/ RiskAdjustments
    \/ ModeScaling
    \/ PortfolioConstraints
    \/ StressTest
    \/ SkipStressTest
    \/ Recommendation
    \/ Reasoning
    \/ Return
    \/ Finish

Spec == Init /\ [][Next]_vars

----------------------------------------------------------------------------
(* Direct calls of single methods of the engine, as a unit test makes them: *)
(* the arguments are not restricted to what calculate_optimal_position      *)
(* passes on.  The argument and the returned value are held in the variable *)
(* of the same name.                                                        *)

UnitProbabilities == {R(-1, 2), R(0, 1), R(1, 4), R(1, 2), R(3, 4), R(9, 10), R(1, 1), R(3, 2)}
UnitPrices == {R(-1, 2), R(0, 1), R(1, 100), R(1, 4), R(1, 2), R(3, 4), R(99, 100), R(1, 1), R(3, 2)}
UnitFractions == {R(0, 1), R(1, 200), R(1, 100), R(3, 100), R(1, 20), R(1, 10)}
UnitExpectedValues == {R(-1, 2), R(0, 1), R(1, 2)}
UnitKellys == {R(0, 1), R(1, 4), R(4, 5)}
UnitConfidences == {R(0, 1), R(3, 10), R(9, 20), R(1, 2), R(11, 20), R(3, 5), R(13, 20),
                    R(7, 10), R(3, 4), R(4, 5), R(17, 20), R(9, 10), R(19, 20), R(1, 1),
                    R(11, 10)}
UnitModeKellys == {R(-1, 10), R(0, 1), R(1, 20), R(1, 10), R(11, 100), R(3, 20), R(1, 5),
                   R(21, 100), R(1, 2), R(4, 5)}
UnitStressKellys == {R(0, 1), R(1, 1000), R(1, 10), R(1, 2)}
UnitStressProbabilities == {R(3, 20), R(1, 5), R(1, 4), R(3, 10), R(1, 2), R(7, 10), R(9, 10)}
UnitStressPrices == {R(1, 200), R(1, 100), R(1, 10), R(1, 4), R(1, 2), R(3, 4)}
(* Directly called methods are tried with a threshold below the curve, too. *)
UnitMinConfidenceThresholds == {R(4, 10), R(6, 10)}

UnitOpportunity(p, price) ==
    [probability_estimate |-> p, market_price |-> price,
     confidence_level |-> R(17, 20), liquidity |-> R(5000, 1),
     bid_ask_spread |-> R(1, 50), time_to_resolution |-> 720,
     market_id |-> "m1"]

CallBaseKelly ==
    /\ pc = "idle"
    /\ \E p \in UnitProbabilities, price \in UnitPrices :
          /\ opportunity' = UnitOpportunity(p, price)
          /\ base_kelly' = _calculate_base_kelly(self, UnitOpportunity(p, price))
    /\ pc' = "unit_base_kelly"
    /\ UNCHANGED <<outer, self, bankroll, existing_positions, expected_value,
                   confidence_adjusted_kelly, confidence_penalty,
                   risk_adjusted_kelly, risk_penalty, mode_adjusted_kelly, final_kelly,
                   recommendation, reasoning, result>>

CallGenerateRecommendation ==
    /\ pc = "idle"
    /\ \E p \in UnitProbabilities, price \in UnitPrices,
          kelly \in UnitFractions, ev \in UnitExpectedValues :
          /\ opportunity' = UnitOpportunity(p, price)
          /\ final_kelly' = kelly
          /\ expected_value' = ev
          /\ recommendation' = _generate_recommendation(self, kelly, ev, UnitOpportunity(p, price))
    /\ pc' = "unit_recommendation"
    /\ UNCHANGED <<outer, self, bankroll, existing_positions, base_kelly,
                   confidence_adjusted_kelly, confidence_penalty,
                   risk_adjusted_kelly, risk_penalty, mode_adjusted_kelly,
                   reasoning, result>>

(* _apply_confidence_adjustment(kelly, confidence): kelly is held in       *)
(* base_kelly and confidence in opportunity.confidence_level, from where   *)
(* calculate_optimal_position passes them.                                 *)
CallConfidenceAdjustment ==
    /\ pc = "idle"
    /\ \E kelly \in UnitKellys, confidence \in UnitConfidences :
          LET r == _apply_confidence_adjustment(self, kelly, confidence)
          IN  /\ opportunity' = [UnitOpportunity(R(3, 4), R(1, 2)) EXCEPT !.confidence_level = confidence]
              /\ base_kelly' = kelly
              /\ confidence_adjusted_kelly' = r[1]
              /\ confidence_penalty' = r[2]
    /\ pc' = "unit_confidence"
    /\ UNCHANGED <<outer, self, bankroll, existing_positions, expected_value,
                   risk_adjusted_kelly, risk_penalty, mode_adjusted_kelly, final_kelly,
                   recommendation, reasoning, result>>

(* _stress_test_position(kelly, opportunity): kelly is held in             *)
(* mode_adjusted_kelly, the returned value in final_kelly.                 *)
CallStressTestPosition ==
    /\ pc = "idle"
    /\ \E kelly \in UnitStressKellys, p \in UnitStressProbabilities, price \in UnitStressPrices :
          /\ opportunity' = UnitOpportunity(p, price)
          /\ mode_adjusted_kelly' = kelly
          /\ final_kelly' = _stress_test_position(self, kelly, UnitOpportunity(p, price))
    /\ pc' = "unit_stress"
    /\ UNCHANGED <<outer, self, bankroll, existing_positions, base_kelly, expected_value,
                   confidence_adjusted_kelly, confidence_penalty, risk_adjusted_kelly,
                   risk_penalty, recommendation, reasoning, result>>

(* _apply_kelly_mode_scaling(kelly): kelly is held in risk_adjusted_kelly,  *)
(* from where calculate_optimal_position passes it.                        *)
CallKellyModeScaling ==
    /\ pc = "idle"
    /\ \E kelly \in UnitModeKellys :
          /\ risk_adjusted_kelly' = kelly
          /\ mode_adjusted_kelly' = _apply_kelly_mode_scaling(self, kelly)
    /\ pc' = "unit_mode"
    /\ UNCHANGED <<outer, self, args, base_kelly, expected_value,
                   confidence_adjusted_kelly, confidence_penalty, risk_penalty,
                   final_kelly, recommendation, reasoning, result>>

UnitReturn ==
    /\ pc \in {"unit_base_kelly", "unit_recommendation", "unit_confidence", "unit_mode",
               "unit_stress"}
    /\ pc' = "idle"
    /\ opportunity' = None /\ bankroll' = None /\ existing_positions' = NoPositions
    /\ base_kelly' = NotRun /\ expected_value' = NotRun
    /\ confidence_adjusted_kelly' = NotRun /\ confidence_penalty' = NotRun
    /\ risk_adjusted_kelly' = NotRun /\ risk_penalty' = NotRun
    /\ mode_adjusted_kelly' = NotRun /\ final_kelly' = NotRun
    /\ recommendation' = NoRecommendation /\ reasoning' = NotRun
    /\ result' = None
    /\ UNCHANGED <<outer, self>>

NextUnit ==
    \/ CallBaseKelly
    \/ CallGenerateRecommendation
    \/ CallConfidenceAdjustment
    \/ CallKellyModeScaling
    \/ CallStressTestPosition
    \/ UnitReturn

InitUnit ==
    /\ self \in {__init__(m, mps, mct, mce, st) :
                    m \in KellyMode, mps \in MaxPositionSizes,
                    mct \in UnitMinConfidenceThresholds, mce \in MaxCorrelationExposures,
                    st \in BOOLEAN}
    /\ NoCall

SpecUnit == InitUnit /\ [][NextUnit]_vars

----------------------------------------------------------------------------
(* calculate_multi_market_kelly.  Its calls of calculate_optimal_position  *)
(* run through the stages above, in the frame of the single call.          *)

(* Bound of the model: the longest batch. *)
MaxBatch == 2

(* What the opportunities of a batch are like; the market_id is given by   *)
(* the place in the batch.                                                 *)
BatchOpportunityKinds ==
    {[probability_estimate |-> R(3, 5), market_price |-> R(3, 10), confidence_level |-> R(1, 1),
      liquidity |-> R(5000, 1), bid_ask_spread |-> R(1, 50), time_to_resolution |-> 720],
     [probability_estimate |-> R(13, 20), market_price |-> R(3, 10), confidence_level |-> R(17, 20),
      liquidity |-> R(5000, 1), bid_ask_spread |-> R(1, 50), time_to_resolution |-> 720],
     [probability_estimate |-> R(11, 20), market_price |-> R(1, 2), confidence_level |-> R(17, 20),
      liquidity |-> R(5000, 1), bid_ask_spread |-> R(1, 50), time_to_resolution |-> 720],
     [probability_estimate |-> R(9, 10), market_price |-> R(1, 2), confidence_level |-> R(11, 20),
      liquidity |-> R(5000, 1), bid_ask_spread |-> R(1, 50), time_to_resolution |-> 720],
     [probability_estimate |-> R(3, 2), market_price |-> R(1, 2), confidence_level |-> R(1, 1),
      liquidity |-> R(5000, 1), bid_ask_spread |-> R(1, 50), time_to_resolution |-> 720]}

MarketIds == <<"m1", "m2", "m3", "m4">>

WithMarketId(kind, id) ==
    [probability_estimate |-> kind.probability_estimate, market_price |-> kind.market_price,
     confidence_level |-> kind.confidence_level, liquidity |-> kind.liquidity,
     bid_ask_spread |-> kind.bid_ask_spread, time_to_resolution |-> kind.time_to_resolution,
     market_id |-> id]

Batches ==
    UNION {{[j \in 1..n |-> WithMarketId(kinds[j], MarketIds[j])] :
                kinds \in [1..n -> BatchOpportunityKinds]} : n \in 0..MaxBatch}

BatchBankrolls == {R(1000, 1), R(50, 1)}

(* correlations: None, or one of two matrices, which the code never reads. *)
Correlations == {None, "identity", "ones"}

(* Configurations of the engine for batches: max_correlation_exposure is   *)
(* any float the constructor is given, a negative one included.            *)
BatchCorrelationExposures == {R(3, 10), R(-1, 10)}

(* results[key] = value on the dict results. *)
DictSet(d, key, value) ==
    IF \E j \in DOMAIN d : d[j].key = key
    THEN [j \in DOMAIN d |-> IF d[j].key = key THEN [key |-> key, value |-> value] ELSE d[j]]
    ELSE Append(d, [key |-> key, value |-> value])

DictHas(d, key) == \E j \in DOMAIN d : d[j].key = key
DictGet(d, key) == d[CHOOSE j \in DOMAIN d : d[j].key = key].value

(* sum(individual_kellys) *)
RECURSIVE SumKellys(_)
SumKellys(kellys) ==
    IF Len(kellys) = 0 THEN Zero ELSE Add(Head(kellys), SumKellys(Tail(kellys)))

(* A float holds the nearest representable value of a quotient or a        *)
(* product.  The stages above work on inputs whose results the floats hold *)
(* to well below any threshold they are compared with; the scaled          *)
(* fractions are compared with the budget they were scaled to, so their    *)
(* rounding is kept, on a grid of ten-thousandths, ties upwards.           *)
FloatGrid == 10000

(* The whole part of (n / d) * scale, by long division, scale a power of ten. *)
RECURSIVE ScaledFloor(_, _, _)
ScaledFloor(n, d, scale) ==
    IF scale = 1 THEN n \div d
    ELSE (n \div d) * scale + ScaledFloor(10 * (n % d), d, scale \div 10)

RoundToFloat(x) == R((ScaledFloor(2 * x[1], x[2], FloatGrid) + 1) \div 2, FloatGrid)

(* scale_factor = total_kelly_budget / total_kelly and the scaled list. *)
scale_kellys(kellys, total_kelly_, total_kelly_budget) ==
    LET scale_factor == RoundToFloat(Div(total_kelly_budget, total_kelly_))
    IN  [j \in DOMAIN kellys |-> RoundToFloat(Mul(kellys[j], scale_factor))]

(* The loop that creates the results of a correlated batch, from index j on. *)
RECURSIVE _create_results(_, _, _, _, _)
_create_results(self_, opps, kellys, j, d) ==
    IF j > Len(opps) THEN d
    ELSE LET opp == opps[j]
             adjusted_kelly == kellys[j]
             r == KellyResult(adjusted_kelly, adjusted_kelly,
                              _calculate_expected_value(self_, opp), Zero, Zero, adjusted_kelly,
                              _generate_recommendation(self_, adjusted_kelly,
                                                       _calculate_expected_value(self_, opp), opp),
                              <<"Multi-market Kelly with correlation adjustment">>)
         IN  _create_results(self_, opps, kellys, j + 1, DictSet(d, opp.market_id, r))

(* The frame of a call of calculate_optimal_position that has returned is gone. *)
DropFrame ==
    /\ pc' = "idle"
    /\ opportunity' = None /\ bankroll' = None /\ existing_positions' = NoPositions
    /\ base_kelly' = NotRun /\ expected_value' = NotRun
    /\ confidence_adjusted_kelly' = NotRun /\ confidence_penalty' = NotRun
    /\ risk_adjusted_kelly' = NotRun /\ risk_penalty' = NotRun
    /\ mode_adjusted_kelly' = NotRun /\ final_kelly' = NotRun
    /\ recommendation' = NoRecommendation /\ reasoning' = NotRun
    /\ result' = None

single_frame == <<pc, args, locals, result>>

(* A caller invokes calculate_multi_market_kelly(opportunities, correlations, bankroll). *)
MultiCall ==
    /\ multi_pc = "idle" /\ pc = "idle"
    /\ \E batch \in Batches, c \in Correlations, b \in BatchBankrolls :
          /\ opportunities' = batch
          /\ correlations' = c
          /\ batch_bankroll' = b
          /\ multi_pc' = IF c = None THEN "independent" ELSE "individual"
    /\ i' = 1
    /\ individual_kellys' = <<>> /\ total_kelly' = NotRun /\ results' = <<>>
    /\ UNCHANGED <<self, single_frame, frames>>

(* MultiInvoke with the results so far passed as the existing positions. *)
MultiInvoke_with_positions ==
    /\ multi_pc \in {"independent", "individual"}
    /\ pc = "idle"
    /\ i <= Len(opportunities)
    /\ opportunity' = opportunities[i]
    /\ bankroll' = batch_bankroll
    /\ existing_positions' =
          [is_none |-> FALSE,
           items |-> [j \in DOMAIN results |->
                        [position_size |-> results[j].value.final_position_size]]]
    /\ pc' = "validate"
    /\ UNCHANGED <<self, locals, result, multi_vars, frames>>

(* self.calculate_optimal_position(opp, bankroll): existing_positions is None. *)
MultiInvoke ==
    /\ multi_pc \in {"independent", "individual"}
    /\ pc = "idle"
    /\ i <= Len(opportunities)
    /\ opportunity' = opportunities[i]
    /\ bankroll' = batch_bankroll
    /\ existing_positions' = NoPositions
    /\ pc' = "validate"
    /\ UNCHANGED <<self, locals, result, multi_vars, frames>>

(* results[opp.market_id] = the result of the call *)
MultiStoreResult ==
    /\ multi_pc = "independent"
    /\ pc = "done"
    /\ results' = DictSet(results, opportunities[i].market_id, result)
    /\ i' = i + 1
    /\ DropFrame
    /\ UNCHANGED <<self, multi_pc, opportunities, correlations, batch_bankroll,
                   individual_kellys, total_kelly, frames>>

MultiReturnIndependent ==
    /\ multi_pc = "independent"
    /\ pc = "idle"
    /\ i > Len(opportunities)
    /\ multi_pc' = "done"
    /\ UNCHANGED <<self, single_frame, opportunities, correlations, batch_bankroll,
                   i, individual_kellys, total_kelly, results, frames>>

(* individual_kellys.append(kelly_result.adjusted_fraction) *)
MultiAppendKelly ==
    /\ multi_pc = "individual"
    /\ pc = "done"
    /\ individual_kellys' = Append(individual_kellys, result.adjusted_fraction)
    /\ i' = i + 1
    /\ DropFrame
    /\ UNCHANGED <<self, multi_pc, opportunities, correlations, batch_bankroll,
                   total_kelly, results, frames>>

(* MultiSum weighting the total by the correlations: all fractions add up   *)
(* once more for every other market under the matrix of ones.               *)
MultiSum_weighted ==
    /\ multi_pc = "individual"
    /\ pc = "idle"
    /\ i > Len(opportunities)
    /\ total_kelly' = IF correlations = "ones"
                      THEN Mul(SumKellys(individual_kellys), R(Len(opportunities), 1))
                      ELSE SumKellys(individual_kellys)
    /\ multi_pc' = "scale"
    /\ UNCHANGED <<self, single_frame, opportunities, correlations, batch_bankroll,
                   i, individual_kellys, results, frames>>

(* MultiSum as soon as the first opportunity has been evaluated. *)
MultiSum_after_first ==
    /\ multi_pc = "individual"
    /\ pc = "idle"
    /\ i > (IF Len(opportunities) = 0 THEN 0 ELSE 1)
    /\ total_kelly' = SumKellys(individual_kellys)
    /\ multi_pc' = "scale"
    /\ UNCHANGED <<self, single_frame, opportunities, correlations, batch_bankroll,
                   i, individual_kellys, results, frames>>

(* total_kelly = sum(individual_kellys) *)
MultiSum ==
    /\ multi_pc = "individual"
    /\ pc = "idle"
    /\ i > Len(opportunities)
    /\ total_kelly' = SumKellys(individual_kellys)
    /\ multi_pc' = "scale"
    /\ UNCHANGED <<self, single_frame, opportunities, correlations, batch_bankroll,
                   i, individual_kellys, results, frames>>

MultiScale ==
    /\ multi_pc = "scale"
    /\ Gt(total_kelly, self.max_correlation_exposure)
    /\ total_kelly # Zero
    /\ individual_kellys' = scale_kellys(individual_kellys, total_kelly, self.max_correlation_exposure)
    /\ multi_pc' = "create"
    /\ UNCHANGED <<self, single_frame, opportunities, correlations, batch_bankroll,
                   i, total_kelly, results, frames>>

(* total_kelly_budget / total_kelly with total_kelly = 0: ZeroDivisionError. *)
MultiScaleRaises ==
    /\ multi_pc = "scale"
    /\ Gt(total_kelly, self.max_correlation_exposure)
    /\ total_kelly = Zero
    /\ multi_pc' = "raised"
    /\ UNCHANGED <<self, single_frame, opportunities, correlations, batch_bankroll,
                   i, individual_kellys, total_kelly, results, frames>>

MultiNoScale ==
    /\ multi_pc = "scale"
    /\ ~Gt(total_kelly, self.max_correlation_exposure)
    /\ multi_pc' = "create"
    /\ UNCHANGED <<self, single_frame, opportunities, correlations, batch_bankroll,
                   i, individual_kellys, total_kelly, results, frames>>

MultiCreateResults ==
    /\ multi_pc = "create"
    /\ results' = _create_results(self, opportunities, individual_kellys, 1, results)
    /\ multi_pc' = "done"
    /\ UNCHANGED <<self, single_frame, opportunities, correlations, batch_bankroll,
                   i, individual_kellys, total_kelly, frames>>

(* The caller has the dict, or the exception. *)
MultiFinish ==
    /\ multi_pc \in {"done", "raised"}
    /\ multi_pc' = "idle"
    /\ opportunities' = <<>> /\ correlations' = None /\ batch_bankroll' = None
    /\ i' = 0 /\ individual_kellys' = <<>> /\ total_kelly' = NotRun /\ results' = <<>>
    /\ UNCHANGED <<self, single_frame, frames>>

NextMulti ==
    \/ MultiCall
    \/ MultiInvoke
    \/ ValidateReject
    \/ ValidateAccept
    \/ BaseKelly
    \/ ExpectedValue
    \/ ConfidenceAdjustment
    \/ RiskAdjustments
    \/ ModeScaling
    \/ PortfolioConstraints
    \/ StressTest
    \/ SkipStressTest
    \/ Recommendation
    \/ Reasoning
    \/ Return
    \/ MultiStoreResult
    \/ MultiReturnIndependent
    \/ MultiAppendKelly
    \/ MultiSum
    \/ MultiScale
    \/ MultiScaleRaises
    \/ MultiNoScale
    \/ MultiCreateResults
    \/ MultiFinish

InitMulti ==
    /\ self \in {__init__(m, mps, mct, mce, st) :
                    m \in KellyMode, mps \in MaxPositionSizes,
                    mct \in MinConfidenceThresholds, mce \in BatchCorrelationExposures,
                    st \in BOOLEAN}
    /\ NoCall

SpecMulti == InitMulti /\ [][NextMulti]_vars

(* Both entry points of the engine, on two configurations. *)
EngineConfigurations ==
    {__init__(FULL, R(1, 2), R(6, 10), R(3, 10), FALSE),
     __init__(FRACTIONAL_50, R(15, 100), R(6, 10), R(-1, 10), TRUE)}

InitEngine ==
    /\ self \in EngineConfigurations
    /\ NoCall

NextEngine ==
    \/ Call
    \/ MultiCall
    \/ MultiInvoke
    \/ ValidateReject
    \/ ValidateAccept
    \/ BaseKelly
    \/ ExpectedValue
    \/ ConfidenceAdjustment
    \/ RiskAdjustments
    \/ ModeScaling
    \/ PortfolioConstraints
    \/ StressTest
    \/ SkipStressTest
    \/ Recommendation
    \/ Reasoning
    \/ Return
    \/ Finish
    \/ MultiStoreResult
    \/ MultiReturnIndependent
    \/ MultiAppendKelly
    \/ MultiSum
    \/ MultiScale
    \/ MultiScaleRaises
    \/ MultiNoScale
    \/ MultiCreateResults
    \/ MultiFinish

SpecEngine == InitEngine /\ [][NextEngine]_vars

----------------------------------------------------------------------------
(* Evaluations of calculate_optimal_position that run concurrently on one  *)
(* engine.  Each thread has its own frame (arguments, locals, position);   *)
(* the engine self is the only object they share.  A step of a thread is   *)
(* one stage of its call.                                                   *)

Threads == {"t1", "t2"}

IdleFrame ==
    [pc |-> "idle", opportunity |-> None, bankroll |-> None, existing_positions |-> NoPositions,
     base_kelly |-> NotRun, expected_value |-> NotRun,
     confidence_adjusted_kelly |-> NotRun, confidence_penalty |-> NotRun,
     risk_adjusted_kelly |-> NotRun, risk_penalty |-> NotRun,
     mode_adjusted_kelly |-> NotRun, final_kelly |-> NotRun,
     recommendation |-> NoRecommendation, reasoning |-> NotRun, result |-> None]

ConcOpportunities ==
    {DemoOpportunity,
     [DemoOpportunity EXCEPT !.probability_estimate = R(11, 20), !.market_price = R(1, 2),
                             !.market_id = "m1"],
     [DemoOpportunity EXCEPT !.confidence_level = R(11, 20), !.market_id = "m2"],
     [DemoOpportunity EXCEPT !.liquidity = R(-1, 1), !.market_id = "m3"]}

ConcPositions == {NoPositions, [is_none |-> FALSE, items |-> <<[position_size |-> R(7, 20)]>>]}

(* StageStep with the risk stage reading the opportunity of another running *)
(* thread, as if the engine kept the current opportunity in a field.        *)
StageStep_shared_opportunity(self_, f) ==
    LET others == {t \in Threads : frames[t].pc \notin {"idle", "done"} /\ frames[t] # f}
        o == IF others = {} THEN f.opportunity ELSE frames[CHOOSE t \in others : TRUE].opportunity
    IN  CASE f.pc = "validate" ->
               IF _validate_opportunity(self_, f.opportunity)
               THEN [f EXCEPT !.pc = "base_kelly"]
               ELSE [f EXCEPT !.pc = "done",
                              !.result = KellyResult(Zero, Zero, Zero, Zero, Zero, Zero, "HOLD",
                                                     <<"Invalid opportunity parameters">>)]
          [] f.pc = "base_kelly" ->
               [f EXCEPT !.pc = "expected_value",
                         !.base_kelly = _calculate_base_kelly(self_, f.opportunity)]
          [] f.pc = "expected_value" ->
               [f EXCEPT !.pc = "confidence",
                         !.expected_value = _calculate_expected_value(self_, f.opportunity)]
          [] f.pc = "confidence" ->
               LET r == _apply_confidence_adjustment(self_, f.base_kelly, f.opportunity.confidence_level)
               IN  [f EXCEPT !.pc = "risk",
                             !.confidence_adjusted_kelly = r[1], !.confidence_penalty = r[2]]
          [] f.pc = "risk" ->
               LET r == _apply_risk_adjustments(self_, f.confidence_adjusted_kelly, o)
               IN  [f EXCEPT !.pc = "mode", !.risk_adjusted_kelly = r[1], !.risk_penalty = r[2]]
          [] f.pc = "mode" ->
               [f EXCEPT !.pc = "portfolio",
                         !.mode_adjusted_kelly = _apply_kelly_mode_scaling(self_, f.risk_adjusted_kelly)]
          [] f.pc = "portfolio" ->
               [f EXCEPT !.pc = "stress",
                         !.final_kelly = _apply_portfolio_constraints(self_, f.mode_adjusted_kelly,
                                             f.opportunity, f.existing_positions, f.bankroll)]
          [] f.pc = "stress" ->
               [f EXCEPT !.pc = "recommendation",
                         !.final_kelly = IF self_.stress_test
                                         THEN _stress_test_position(self_, f.final_kelly, f.opportunity)
                                         ELSE f.final_kelly]
          [] f.pc = "recommendation" ->
               [f EXCEPT !.pc = "reasoning",
                         !.recommendation = _generate_recommendation(self_, f.final_kelly,
                                                f.expected_value, f.opportunity)]
          [] f.pc = "reasoning" ->
               [f EXCEPT !.pc = "return",
                         !.reasoning = _generate_reasoning(self_, f.base_kelly, f.confidence_penalty,
                                           f.risk_penalty, f.final_kelly, f.opportunity)]
          [] f.pc = "return" ->
               [f EXCEPT !.pc = "done",
                         !.result = KellyResult(f.base_kelly, f.final_kelly, f.expected_value,
                                                f.confidence_penalty, f.risk_penalty, f.final_kelly,
                                                f.recommendation, f.reasoning)]

(* The frame after the next stage of the call in frame f. *)
StageStep(self_, f) ==
    CASE f.pc = "validate" ->
           IF _validate_opportunity(self_, f.opportunity)
           THEN [f EXCEPT !.pc = "base_kelly"]
           ELSE [f EXCEPT !.pc = "done",
                          !.result = KellyResult(Zero, Zero, Zero, Zero, Zero, Zero, "HOLD",
                                                 <<"Invalid opportunity parameters">>)]
      [] f.pc = "base_kelly" ->
           [f EXCEPT !.pc = "expected_value",
                     !.base_kelly = _calculate_base_kelly(self_, f.opportunity)]
      [] f.pc = "expected_value" ->
           [f EXCEPT !.pc = "confidence",
                     !.expected_value = _calculate_expected_value(self_, f.opportunity)]
      [] f.pc = "confidence" ->
           LET r == _apply_confidence_adjustment(self_, f.base_kelly, f.opportunity.confidence_level)
           IN  [f EXCEPT !.pc = "risk",
                         !.confidence_adjusted_kelly = r[1], !.confidence_penalty = r[2]]
      [] f.pc = "risk" ->
           LET r == _apply_risk_adjustments(self_, f.confidence_adjusted_kelly, f.opportunity)
           IN  [f EXCEPT !.pc = "mode", !.risk_adjusted_kelly = r[1], !.risk_penalty = r[2]]
      [] f.pc = "mode" ->
           [f EXCEPT !.pc = "portfolio",
                     !.mode_adjusted_kelly = _apply_kelly_mode_scaling(self_, f.risk_adjusted_kelly)]
      [] f.pc = "portfolio" ->
           [f EXCEPT !.pc = "stress",
                     !.final_kelly = _apply_portfolio_constraints(self_, f.mode_adjusted_kelly,
                                         f.opportunity, f.existing_positions, f.bankroll)]
      [] f.pc = "stress" ->
           [f EXCEPT !.pc = "recommendation",
                     !.final_kelly = IF self_.stress_test
                                     THEN _stress_test_position(self_, f.final_kelly, f.opportunity)
                                     ELSE f.final_kelly]
      [] f.pc = "recommendation" ->
           [f EXCEPT !.pc = "reasoning",
                     !.recommendation = _generate_recommendation(self_, f.final_kelly,
                                            f.expected_value, f.opportunity)]
      [] f.pc = "reasoning" ->
           [f EXCEPT !.pc = "return",
                     !.reasoning = _generate_reasoning(self_, f.base_kelly, f.confidence_penalty,
                                       f.risk_penalty, f.final_kelly, f.opportunity)]
      [] f.pc = "return" ->
           [f EXCEPT !.pc = "done",
                     !.result = KellyResult(f.base_kelly, f.final_kelly, f.expected_value,
                                            f.confidence_penalty, f.risk_penalty, f.final_kelly,
                                            f.recommendation, f.reasoning)]

(* A thread calls calculate_optimal_position on the shared engine. *)
ConcCall ==
    /\ \E t \in Threads, opp \in ConcOpportunities, b \in Bankrolls, ep \in ConcPositions :
          /\ frames[t].pc = "idle"
          /\ frames' = [frames EXCEPT ![t] = [IdleFrame EXCEPT !.pc = "validate",
                                                              !.opportunity = opp,
                                                              !.bankroll = b,
                                                              !.existing_positions = ep]]
    /\ UNCHANGED <<self, single_frame, multi_vars>>

(* A thread runs the next stage of its call. *)
ConcStep ==
    /\ \E t \in Threads :
          /\ frames[t].pc \notin {"idle", "done"}
          /\ frames' = [frames EXCEPT ![t] = StageStep(self, frames[t])]
    /\ UNCHANGED <<self, single_frame, multi_vars>>

(* A thread's caller has taken the result. *)
ConcFinish ==
    /\ \E t \in Threads :
          /\ frames[t].pc = "done"
          /\ frames' = [frames EXCEPT ![t] = IdleFrame]
    /\ UNCHANGED <<self, single_frame, multi_vars>>

NextConc ==
    \/ ConcCall
    \/ ConcStep
    \/ ConcFinish

InitConc ==
    /\ self \in {__init__(m, mps, mct, mce, st) :
                    m \in KellyMode, mps \in MaxPositionSizes,
                    mct \in MinConfidenceThresholds, mce \in MaxCorrelationExposures,
                    st \in BOOLEAN}
    /\ pc = "idle"
    /\ opportunity = None /\ bankroll = None /\ existing_positions = NoPositions
    /\ base_kelly = NotRun /\ expected_value = NotRun
    /\ confidence_adjusted_kelly = NotRun /\ confidence_penalty = NotRun
    /\ risk_adjusted_kelly = NotRun /\ risk_penalty = NotRun
    /\ mode_adjusted_kelly = NotRun /\ final_kelly = NotRun
    /\ recommendation = NoRecommendation /\ reasoning = NotRun
    /\ result = None
    /\ multi_pc = "idle"
    /\ opportunities = <<>> /\ correlations = None /\ batch_bankroll = None
    /\ i = 0 /\ individual_kellys = <<>> /\ total_kelly = NotRun /\ results = <<>>
    /\ frames = [t \in Threads |-> IdleFrame]

SpecConc == InitConc /\ [][NextConc]_vars

----------------------------------------------------------------------------
(* Properties. *)

(* The bounds that _validate_opportunity is specified to enforce, stated on *)
(* the fields themselves.                                                   *)
ValidByContract(o) ==
    /\ Gt(o.probability_estimate, Zero) /\ Lt(o.probability_estimate, One)
    /\ Gt(o.market_price, Zero) /\ Lt(o.market_price, One)
    /\ Ge(o.confidence_level, Zero) /\ Le(o.confidence_level, One)
    /\ Ge(o.liquidity, Zero)

(* Every bound of the data model of MarketOpportunity. *)
WithinDataModelBounds(o) ==
    /\ ValidByContract(o)
    /\ Ge(o.bid_ask_spread, Zero)
    /\ o.time_to_resolution >= 0

LocalsNotRun ==
    /\ base_kelly = NotRun /\ expected_value = NotRun
    /\ confidence_adjusted_kelly = NotRun /\ confidence_penalty = NotRun
    /\ risk_adjusted_kelly = NotRun /\ risk_penalty = NotRun
    /\ mode_adjusted_kelly = NotRun /\ final_kelly = NotRun
    /\ recommendation = NoRecommendation /\ reasoning = NotRun

(* C1: every result returned by calculate_optimal_position, for a valid or *)
(* an invalid opportunity, has final_position_size <= max_position_size.    *)
C1_FinalWithinMaxPositionSize ==
    pc = "done" => Le(result.final_position_size, self.max_position_size)

(* The hard cap is what bounds the returned size. *)
C1_Witness ==
    /\ pc = "done"
    /\ ValidByContract(opportunity)
    /\ Gt(mode_adjusted_kelly, self.max_position_size)
    /\ result.final_position_size = self.max_position_size

(* C2: an opportunity whose probability or price is not strictly in (0,1),  *)
(* whose confidence is outside [0,1] or whose liquidity is negative returns *)
(* the all-zero HOLD result with reasoning "Invalid opportunity parameters", *)
(* and no later stage has run.                                              *)
C2_InvalidOpportunityShortCircuits ==
    (pc = "done" /\ ~ValidByContract(opportunity)) =>
        /\ result.kelly_fraction = Zero
        /\ result.adjusted_fraction = Zero
        /\ result.expected_value = Zero
        /\ result.confidence_adjustment = Zero
        /\ result.risk_adjustment = Zero
        /\ result.final_position_size = Zero
        /\ result.recommendation = "HOLD"
        /\ result.reasoning = <<"Invalid opportunity parameters">>
        /\ LocalsNotRun

(* A call returned for an opportunity whose only fault is a negative liquidity. *)
C2_Witness ==
    /\ pc = "done"
    /\ Lt(opportunity.liquidity, Zero)
    /\ ValidByContract([opportunity EXCEPT !.liquidity = Zero])
    /\ result.recommendation = "HOLD"

(* C3: an opportunity failing any bound of the data model, a negative       *)
(* bid_ask_spread or time_to_resolution included, returns size 0 and HOLD   *)
(* without the pipeline having run.                                         *)
C3_AnyBoundViolationShortCircuits ==
    (pc = "done" /\ ~WithinDataModelBounds(opportunity)) =>
        /\ result.final_position_size = Zero
        /\ result.recommendation = "HOLD"
        /\ LocalsNotRun

(* C4: a valid opportunity with confidence_level < min_confidence_threshold *)
(* returns adjusted_fraction 0 and final_position_size 0.                   *)
C4_LowConfidenceNoPosition ==
    (/\ pc = "done"
     /\ ValidByContract(opportunity)
     /\ Lt(opportunity.confidence_level, self.min_confidence_threshold)) =>
        /\ result.adjusted_fraction = Zero
        /\ result.final_position_size = Zero

(* A favourable opportunity, stress test off, refused for its confidence alone. *)
C4_Witness ==
    /\ pc = "done"
    /\ ValidByContract(opportunity)
    /\ Lt(opportunity.confidence_level, self.min_confidence_threshold)
    /\ ~self.stress_test
    /\ Gt(result.kelly_fraction, Zero)
    /\ Gt(result.expected_value, Zero)

(* C5: for a valid opportunity the returned final_position_size is at most  *)
(* the returned kelly_fraction, the base Kelly before any adjustment.       *)
C5_FinalAtMostBaseKelly ==
    (pc = "done" /\ ValidByContract(opportunity)) =>
        Le(result.final_position_size, result.kelly_fraction)

(* A position that survived every stage, smaller than the base Kelly. *)
C5_Witness ==
    /\ pc = "done"
    /\ ValidByContract(opportunity)
    /\ Gt(result.final_position_size, Zero)
    /\ Lt(result.final_position_size, result.kelly_fraction)

(* C6: the stress test stage never increases the fraction that the          *)
(* portfolio constraint stage produced.                                     *)
C6_StressTestNeverIncreases ==
    [][(pc = "stress" /\ self.stress_test) => Le(final_kelly', final_kelly)]_vars

(* The stress test has run and left a position. *)
C6_Witness ==
    /\ pc = "recommendation"
    /\ self.stress_test
    /\ Gt(final_kelly, Zero)

(* C7: _calculate_base_kelly returns 0 for a price outside (0,1); otherwise, *)
(* with b = (1 - price)/price, the returned value k is >= 0 and satisfies    *)
(* b * k = max(p*b - (1 - p), 0).                                            *)
C7_BaseKellyFormula ==
    pc = "unit_base_kelly" =>
        LET p == opportunity.probability_estimate
            price == opportunity.market_price
        IN  IF Le(price, Zero) \/ Ge(price, One)
            THEN base_kelly = Zero
            ELSE LET b == Div(Sub(One, price), price)
                 IN  /\ Ge(base_kelly, Zero)
                     /\ Mul(b, base_kelly) = Max2(Sub(Mul(p, b), Sub(One, p)), Zero)

(* A call with a price in (0,1) that returned a positive fraction. *)
C7_Witness ==
    /\ pc = "unit_base_kelly"
    /\ Gt(opportunity.market_price, Zero) /\ Lt(opportunity.market_price, One)
    /\ Gt(base_kelly, Zero)

InUnitInterval(x) == Gt(x, Zero) /\ Lt(x, One)

C9_RecommendationTable ==
    pc = "unit_recommendation" =>
        LET hold == Lt(final_kelly, R(1, 100)) \/ Le(expected_value, Zero)
            large == Ge(final_kelly, R(5, 100))
            above == Gt(opportunity.probability_estimate, opportunity.market_price)
        IN  /\ hold => recommendation = "HOLD"
            /\ (~hold /\ large /\ above) => recommendation = "BUY_YES"
            /\ (~hold /\ large /\ ~above) => recommendation = "BUY_NO"
            /\ (~hold /\ ~large) => recommendation = "SMALL_BUY"
            /\ recommendation # "HOLD" => Gt(expected_value, Zero)

(* A call that held a fraction >= 0.01 because the expected value is exactly 0. *)
C9_Witness ==
    /\ pc = "unit_recommendation"
    /\ Ge(final_kelly, R(5, 100))
    /\ expected_value = Zero
    /\ recommendation = "HOLD"

(* C10: a valid opportunity with market_price = 0.99 returns kelly_fraction *)
(* 0 and final_position_size 0.                                             *)
C10_NearCertainPriceNoKelly ==
    (/\ pc = "done"
     /\ ValidByContract(opportunity)
     /\ opportunity.market_price = R(99, 100)) =>
        /\ result.kelly_fraction = Zero
        /\ result.final_position_size = Zero

(* The engine that demo_kelly_optimizer constructs. *)
DemoEngine == __init__(FRACTIONAL_50, R(15, 100), R(6, 10), R(3, 10), TRUE)

(* |x - y| < 0.0005: x is y to three decimals. *)
Approx(x, y) == Lt(Sub(x, y), R(5, 10000)) /\ Lt(Sub(y, x), R(5, 10000))

(* C11: the demo opportunity on the demo engine returns kelly_fraction     *)
(* (0.72 - 0.35)/0.65, about 0.569, expected_value about 1.057, a          *)
(* final_position_size <= 0.15 and a recommendation other than HOLD.       *)
C11_ReferenceOpportunity ==
    (/\ pc = "done"
     /\ self = DemoEngine
     /\ opportunity = DemoOpportunity
     /\ existing_positions = NoPositions) =>
        /\ result.kelly_fraction = Div(Sub(R(72, 100), R(35, 100)), R(65, 100))
        /\ Approx(result.kelly_fraction, R(569, 1000))
        /\ Approx(result.expected_value, R(1057, 1000))
        /\ Le(result.final_position_size, R(15, 100))
        /\ result.recommendation # "HOLD"

(* The demo call has returned, with a position to buy. *)
C11_Witness ==
    /\ pc = "done"
    /\ self = DemoEngine
    /\ opportunity = DemoOpportunity
    /\ existing_positions = NoPositions
    /\ result.recommendation = "BUY_YES"

(* The sum of the position sizes of the first n dicts of a list. *)
RECURSIVE ExposureOfFirst(_, _)
ExposureOfFirst(items, n) ==
    IF n = 0 THEN Zero
    ELSE Add(ExposureOfFirst(items, n - 1),
             IF "position_size" \in DOMAIN items[n] THEN items[n].position_size ELSE Zero)

PositionsSupplied == ~existing_positions.is_none /\ existing_positions.items # <<>>
SuppliedExposure == ExposureOfFirst(existing_positions.items, Len(existing_positions.items))
CappedCandidate ==
    IF Lt(self.max_position_size, mode_adjusted_kelly)
    THEN self.max_position_size ELSE mode_adjusted_kelly

(* C12: the portfolio stage clamps the fraction to max_position_size and   *)
(* then, only if positions are supplied and their sum S exceeds            *)
(* max_correlation_exposure, multiplies it by max(0.5, 1 - (S - exposure)); *)
(* with S = 0.35 and the exposure limit 0.3 the factor is 0.95.            *)
C12_PortfolioConstraint ==
    pc = "stress" =>
        LET excess == Sub(SuppliedExposure, self.max_correlation_exposure)
            factor == IF Ge(excess, R(1, 2)) THEN R(1, 2) ELSE Sub(One, excess)
        IN  /\ final_kelly = IF PositionsSupplied /\ Gt(excess, Zero)
                             THEN Mul(CappedCandidate, factor)
                             ELSE CappedCandidate
            /\ (/\ PositionsSupplied
                /\ SuppliedExposure = R(35, 100)
                /\ self.max_correlation_exposure = R(3, 10)) =>
                   final_kelly = Mul(CappedCandidate, R(95, 100))

(* A capped candidate throttled by positions that sum to 0.35. *)
C12_Witness ==
    /\ pc = "stress"
    /\ PositionsSupplied
    /\ SuppliedExposure = R(35, 100)
    /\ Gt(mode_adjusted_kelly, self.max_position_size)
    /\ final_kelly = Mul(self.max_position_size, R(95, 100))

(* The calibration curve, segment by segment. *)
CurveValue(c) ==
    IF Le(c, R(1, 2)) THEN Zero
    ELSE IF Le(c, R(6, 10)) THEN Mul(R(2, 1), Sub(c, R(1, 2)))
    ELSE IF Le(c, R(7, 10)) THEN Add(R(2, 10), Mul(R(3, 1), Sub(c, R(6, 10))))
    ELSE IF Le(c, R(8, 10)) THEN Add(R(5, 10), Mul(R(3, 1), Sub(c, R(7, 10))))
    ELSE IF Le(c, R(9, 10)) THEN Add(R(8, 10), Mul(R(3, 2), Sub(c, R(8, 10))))
    ELSE IF Le(c, One) THEN Add(R(95, 100), Mul(R(1, 2), Sub(c, R(9, 10))))
    ELSE One

(* C13: for a confidence >= min_confidence_threshold the confidence stage  *)
(* returns (kelly * m, 1 - m), m being the piecewise-linear curve clamped  *)
(* outside [0.5, 1]; for every confidence in [0,1] the penalty is in [0,1]. *)
C13_ConfidenceStage ==
    pc = "unit_confidence" =>
        LET c == opportunity.confidence_level
        IN  /\ Ge(c, self.min_confidence_threshold) =>
                  /\ confidence_adjusted_kelly = Mul(base_kelly, CurveValue(c))
                  /\ confidence_penalty = Sub(One, CurveValue(c))
            /\ (Ge(c, Zero) /\ Le(c, One)) =>
                  Ge(confidence_penalty, Zero) /\ Le(confidence_penalty, One)

(* A confidence strictly between two anchors, interpolated. *)
C13_Witness ==
    /\ pc = "unit_confidence"
    /\ opportunity.confidence_level = R(85, 100)
    /\ Gt(base_kelly, Zero)
    /\ confidence_penalty = R(125, 1000)

(* C14: for a valid opportunity with liquidity, spread and horizon >= 0,   *)
(* the returned risk_adjustment is a penalty fraction in [0,1].            *)
C14_RiskAdjustmentIsFraction ==
    (pc = "done" /\ WithinDataModelBounds(opportunity)) =>
        Ge(result.risk_adjustment, Zero) /\ Le(result.risk_adjustment, One)

(* What calculate_optimal_position(opp, b, ep) returns when it runs alone:  *)
(* the stages in their order, each on the values of the one before.         *)
SingleEvaluation(self_, opp, b, ep) ==
    IF ~_validate_opportunity(self_, opp)
    THEN KellyResult(Zero, Zero, Zero, Zero, Zero, Zero, "HOLD",
                     <<"Invalid opportunity parameters">>)
    ELSE LET bk == _calculate_base_kelly(self_, opp)
             ev == _calculate_expected_value(self_, opp)
             ca == _apply_confidence_adjustment(self_, bk, opp.confidence_level)
             ra == _apply_risk_adjustments(self_, ca[1], opp)
             ma == _apply_kelly_mode_scaling(self_, ra[1])
             pk == _apply_portfolio_constraints(self_, ma, opp, ep, b)
             fk == IF self_.stress_test THEN _stress_test_position(self_, pk, opp) ELSE pk
             rec == _generate_recommendation(self_, fk, ev, opp)
             rs == _generate_reasoning(self_, bk, ca[2], ra[2], fk, opp)
         IN  KellyResult(bk, fk, ev, ca[2], ra[2], fk, rec, rs)

(* C15: calculate_multi_market_kelly without a correlation matrix returns,  *)
(* under each opportunity's market_id (the ids being distinct), exactly the *)
(* KellyResult of calculate_optimal_position(opportunity, bankroll) with no *)
(* existing positions, whatever else is in the batch.                       *)
C15_IndependentBatch ==
    (multi_pc = "done" /\ correlations = None) =>
        /\ Len(results) = Len(opportunities)
        /\ \A j \in DOMAIN opportunities :
              /\ DictHas(results, opportunities[j].market_id)
              /\ DictGet(results, opportunities[j].market_id) =
                    SingleEvaluation(self, opportunities[j], batch_bankroll, NoPositions)

(* A batch of two without a matrix has returned, the first position so      *)
(* large that it would have cut the second had it counted as exposure.      *)
C15_Witness ==
    /\ multi_pc = "done" /\ correlations = None
    /\ Len(opportunities) = 2
    /\ Gt(results[1].value.final_position_size, self.max_correlation_exposure)
    /\ Gt(results[2].value.final_position_size, Zero)

(* C16: calculate_multi_market_kelly with a correlation matrix returns      *)
(* fractions whose sum is at most max_correlation_exposure: with T the sum  *)
(* of the individually computed adjusted fractions, every fraction is       *)
(* returned unchanged if T <= max_correlation_exposure, and is multiplied   *)
(* by max_correlation_exposure / T otherwise.                               *)
C16_CorrelatedBatchWithinBudget ==
    (multi_pc = "done" /\ correlations # None) =>
        LET ind == [j \in DOMAIN opportunities |->
                      SingleEvaluation(self, opportunities[j], batch_bankroll,
                                       NoPositions).adjusted_fraction]
            T == SumKellys(ind)
            budget == self.max_correlation_exposure
            ret == [j \in DOMAIN opportunities |->
                      DictGet(results, opportunities[j].market_id).adjusted_fraction]
        IN  /\ Le(SumKellys(ret), budget)
            /\ IF Le(T, budget)
               THEN ret = ind
               ELSE \A j \in DOMAIN ret :
                       ret[j] = RoundToFloat(Mul(ind[j], RoundToFloat(Div(budget, T))))

(* C17: no evaluation mutates anything: the engine's fields never change,   *)
(* and while a call runs its opportunity, its existing_positions and the    *)
(* batch it was given stay as the caller passed them.                       *)
C17_NothingMutated ==
    [][/\ self' = self
       /\ (pc # "idle" /\ pc' # "idle") =>
              (opportunity' = opportunity /\ existing_positions' = existing_positions)
       /\ (multi_pc # "idle" /\ multi_pc' # "idle") => opportunities' = opportunities]_vars

(* The stress test has run on an opportunity evaluated against positions    *)
(* the caller supplied, and has cut the position.                           *)
C17_Witness ==
    /\ pc = "recommendation"
    /\ self.stress_test
    /\ ~existing_positions.is_none /\ Len(existing_positions.items) > 0
    /\ Gt(final_kelly, Zero)
    /\ Lt(final_kelly, mode_adjusted_kelly)

(* C19: no division is executed with a zero divisor, for any opportunity,   *)
(* any batch and any configuration of the engine: the divisions of          *)
(* _calculate_base_kelly and _calculate_expected_value are reached with a   *)
(* non-zero divisor, and the scale factor budget / total never raises.      *)
C19_NoZeroDivisor ==
    /\ pc = "base_kelly" => Sub(One, opportunity.market_price) # Zero
    /\ pc = "expected_value" => opportunity.market_price # Zero
    /\ multi_pc # "raised"

(* C20: in every KellyResult the engine produces, final_position_size       *)
(* equals adjusted_fraction: the result of a single evaluation, valid or    *)
(* not, and every result of a batch, with or without a matrix.              *)
C20_FinalEqualsAdjusted ==
    /\ pc = "done" => result.final_position_size = result.adjusted_fraction
    /\ \A j \in DOMAIN results :
          results[j].value.final_position_size = results[j].value.adjusted_fraction

(* A single evaluation has returned a position that the portfolio stage cut. *)
C20_Witness ==
    /\ pc = "done" /\ multi_pc = "idle"
    /\ Gt(result.final_position_size, Zero)
    /\ Lt(result.final_position_size, mode_adjusted_kelly)

(* C18: for evaluations running concurrently on one shared engine, under    *)
(* every interleaving of their stages, each evaluation returns exactly the  *)
(* result it returns when run alone on its own opportunity, existing        *)
(* positions and the engine configuration.                                  *)
C18_ConcurrentAsAlone ==
    \A t \in Threads :
        frames[t].pc = "done" =>
            frames[t].result = SingleEvaluation(self, frames[t].opportunity, frames[t].bankroll,
                                                frames[t].existing_positions)

(* One thread has returned a position while the other is in the middle of   *)
(* evaluating a different opportunity, its risk stage still to come.        *)
C18_Witness ==
    /\ frames["t1"].pc = "done"
    /\ Gt(frames["t1"].result.final_position_size, Zero)
    /\ frames["t2"].pc = "risk"
    /\ frames["t2"].opportunity # frames["t1"].opportunity
    /\ Gt(frames["t2"].confidence_adjusted_kelly, Zero)

(* C21: the risk stage returns its input times L, S and T, where L = 0.9    *)
(* if liquidity < 1000 else 1, S = max(1 - 2*spread, 0.5) if bid_ask_spread *)
(* > 0.05 else 1, and T = 0.95^((time_to_resolution - 2160)/168) if         *)
(* time_to_resolution > 2160 else 1; S is never below 0.5; an opportunity   *)
(* with liquidity >= 1000, spread <= 0.05 and horizon <= 2160 comes back    *)
(* unchanged with penalty 0.                                                *)
C21_RiskStage ==
    pc = "mode" =>
        LET o == opportunity
            L == IF Lt(o.liquidity, R(1000, 1)) THEN R(9, 10) ELSE One
            S == IF Gt(o.bid_ask_spread, R(5, 100))
                 THEN Max2(Sub(One, Mul(R(2, 1), o.bid_ask_spread)), R(1, 2))
                 ELSE One
            T == IF o.time_to_resolution > 2160
                 THEN Power(R(95, 100), R(o.time_to_resolution - 2160, 168))
                 ELSE One
        IN  /\ risk_adjusted_kelly = Mul(Mul(Mul(confidence_adjusted_kelly, L), S), T)
            /\ Ge(S, R(1, 2))
            /\ (Ge(o.liquidity, R(1000, 1)) /\ Le(o.bid_ask_spread, R(5, 100))
                    /\ o.time_to_resolution <= 2160) =>
                  (risk_adjusted_kelly = confidence_adjusted_kelly /\ risk_penalty = Zero)

(* The risk stage has cut a positive fraction for all three reasons, the    *)
(* spread so wide that the floor of 0.5 applies.                            *)
C21_Witness ==
    /\ pc = "mode"
    /\ Lt(opportunity.liquidity, R(1000, 1))
    /\ Gt(opportunity.bid_ask_spread, R(1, 4))
    /\ opportunity.time_to_resolution > 2160
    /\ Gt(risk_adjusted_kelly, Zero)
    /\ Lt(risk_adjusted_kelly, confidence_adjusted_kelly)

(* The factor a mode is said to apply to the fraction k. *)
ModeMultiplier(mode, k) ==
    IF mode = FULL THEN One
    ELSE IF mode = FRACTIONAL_50 THEN R(1, 2)
    ELSE IF mode = FRACTIONAL_25 THEN R(1, 4)
    ELSE IF Gt(k, R(1, 5)) THEN R(1, 4)
    ELSE IF Gt(k, R(1, 10)) /\ Le(k, R(1, 5)) THEN R(1, 2)
    ELSE R(3, 4)

(* C22: mode scaling multiplies the fraction k by 1 in FULL, 0.5 in HALF,   *)
(* 0.25 in QUARTER, and in ADAPTIVE by 0.25 if k > 0.2, 0.5 if 0.1 < k <=   *)
(* 0.2 and 0.75 if k <= 0.1; the output is <= k for k >= 0, and in ADAPTIVE *)
(* the quotient output / k does not increase with k.                        *)
C22_ModeScaling ==
    pc = "unit_mode" =>
        LET k == risk_adjusted_kelly
        IN  /\ mode_adjusted_kelly = Mul(k, ModeMultiplier(self.kelly_mode, k))
            /\ Ge(k, Zero) => Le(mode_adjusted_kelly, k)
            /\ (self.kelly_mode = ADAPTIVE /\ Gt(k, Zero)) =>
                  \A k2 \in UnitModeKellys :
                      Ge(k2, k) =>
                          Le(Div(_apply_kelly_mode_scaling(self, k2), k2),
                             Div(mode_adjusted_kelly, k))

(* An adaptive engine has scaled a fraction on the edge of its middle tier. *)
C22_Witness ==
    /\ pc = "unit_mode"
    /\ self.kelly_mode = ADAPTIVE
    /\ risk_adjusted_kelly = R(1, 5)
    /\ mode_adjusted_kelly = R(1, 10)

(* Half the base Kelly of the opportunity o with the estimate p. *)
HalfBaseKellyAt(o, p) ==
    Mul(R(1, 2), _calculate_base_kelly(self, [o EXCEPT !.probability_estimate = p]))

(* C23, as claimed: for every fraction k and valid opportunity (p, price),  *)
(* the stress test returns 0.8 * min(k, 0.5*base_kelly(p - 0.20, price),    *)
(* 0.5*base_kelly(p - 0.15, price), 0.5*base_kelly(p - 0.10, price)), the   *)
(* estimate being reduced by exactly 0.20, 0.15 and 0.10.                   *)
C23_StressTestExactReductions ==
    (pc = "unit_stress" /\ _validate_opportunity(self, opportunity)) =>
        LET o == opportunity
            p == o.probability_estimate
        IN  final_kelly =
                Mul(R(8, 10),
                    Min2(Min2(mode_adjusted_kelly, HalfBaseKellyAt(o, Sub(p, R(20, 100)))),
                         Min2(HalfBaseKellyAt(o, Sub(p, R(15, 100))),
                              HalfBaseKellyAt(o, Sub(p, R(10, 100))))))

(* C23, amended: for every fraction k and valid opportunity (p, price), the *)
(* stress test returns 0.8 * min(k, 0.5*base_kelly(max(0.01, p - 0.20),     *)
(* price), 0.5*base_kelly(max(0.01, p - 0.15), price),                      *)
(* 0.5*base_kelly(max(0.01, p - 0.10), price)): each reduced estimate is    *)
(* floored at 0.01.                                                         *)
C23_StressTestFlooredReductions ==
    (pc = "unit_stress" /\ _validate_opportunity(self, opportunity)) =>
        LET o == opportunity
            p == o.probability_estimate
            floored(d) == Max2(R(1, 100), Sub(p, d))
        IN  final_kelly =
                Mul(R(8, 10),
                    Min2(Min2(mode_adjusted_kelly, HalfBaseKellyAt(o, floored(R(20, 100)))),
                         Min2(HalfBaseKellyAt(o, floored(R(15, 100))),
                              HalfBaseKellyAt(o, floored(R(10, 100))))))

(* The stress test has left a position on an opportunity whose estimate,    *)
(* reduced by 0.20, is below the floor, the price being below the floor too. *)
C23_Witness ==
    /\ pc = "unit_stress"
    /\ _validate_opportunity(self, opportunity)
    /\ Lt(Sub(opportunity.probability_estimate, R(20, 100)), R(1, 100))
    /\ Gt(final_kelly, Zero)

(* C24: for a valid opportunity the stages run in one fixed order, each on  *)
(* the output of the one before: base Kelly and expected value, confidence  *)
(* adjustment, risk adjustment, mode scaling, hard cap and correlation      *)
(* throttle, and the stress test last; the stress test runs only when       *)
(* stress_test is enabled, and when it is disabled final_position_size is   *)
(* the portfolio-constrained fraction.                                      *)
C24_StagesInOrder ==
    [][/\ pc = "validate" =>
             pc' = IF _validate_opportunity(self, opportunity) THEN "base_kelly" ELSE "done"
       /\ pc = "base_kelly" =>
             (pc' = "expected_value" /\ base_kelly' = _calculate_base_kelly(self, opportunity))
       /\ pc = "expected_value" =>
             (pc' = "confidence" /\ expected_value' = _calculate_expected_value(self, opportunity))
       /\ pc = "confidence" =>
             (/\ pc' = "risk"
              /\ confidence_adjusted_kelly' =
                    _apply_confidence_adjustment(self, base_kelly, opportunity.confidence_level)[1])
       /\ pc = "risk" =>
             (/\ pc' = "mode"
              /\ risk_adjusted_kelly' =
                    _apply_risk_adjustments(self, confidence_adjusted_kelly, opportunity)[1])
       /\ pc = "mode" =>
             (/\ pc' = "portfolio"
              /\ mode_adjusted_kelly' = _apply_kelly_mode_scaling(self, risk_adjusted_kelly))
       /\ pc = "portfolio" =>
             (/\ pc' = "stress"
              /\ final_kelly' = _apply_portfolio_constraints(self, mode_adjusted_kelly, opportunity,
                                                             existing_positions, bankroll))
       /\ pc = "stress" =>
             (/\ pc' = "recommendation"
              /\ final_kelly' = IF self.stress_test
                                THEN _stress_test_position(self, final_kelly, opportunity)
                                ELSE final_kelly)
       /\ pc \in {"recommendation", "reasoning"} => final_kelly' = final_kelly
       /\ pc = "return" =>
             (/\ pc' = "done"
              /\ result'.final_position_size = final_kelly
              /\ ~self.stress_test =>
                    result'.final_position_size =
                        _apply_portfolio_constraints(self, mode_adjusted_kelly, opportunity,
                                                     existing_positions, bankroll))]_vars

(* An engine without stress test has returned a position that every stage  *)
(* from the confidence adjustment to the throttle has changed.              *)
C24_Witness ==
    /\ pc = "done"
    /\ ~self.stress_test
    /\ _validate_opportunity(self, opportunity)
    /\ Lt(confidence_adjusted_kelly, base_kelly)
    /\ Lt(risk_adjusted_kelly, confidence_adjusted_kelly)
    /\ Lt(mode_adjusted_kelly, risk_adjusted_kelly)
    /\ Lt(result.final_position_size, mode_adjusted_kelly)
    /\ Gt(result.final_position_size, Zero)

(* The fractions of the opportunities of the batch, each evaluated alone. *)
IndividualFractions ==
    [j \in DOMAIN opportunities |->
        SingleEvaluation(self, opportunities[j], batch_bankroll, NoPositions).adjusted_fraction]

(* C25: an invalid opportunity in a batch is reported as the invalid-input  *)
(* result of a single evaluation (all sizing fields 0, expected_value 0,    *)
(* HOLD, reasoning "Invalid opportunity parameters"), with or without a     *)
(* correlation matrix.                                                      *)
C25_InvalidInBatch ==
    multi_pc = "done" =>
        \A j \in DOMAIN opportunities :
            ~_validate_opportunity(self, opportunities[j]) =>
                DictGet(results, opportunities[j].market_id) =
                    KellyResult(Zero, Zero, Zero, Zero, Zero, Zero, "HOLD",
                                <<"Invalid opportunity parameters">>)

(* C26: with a correlation matrix the aggregation is a join point: the sum  *)
(* and the scale factor are computed only after every opportunity of the    *)
(* batch has been evaluated, and every returned fraction is scaled with the *)
(* factor of the complete batch.                                            *)
C26_AggregationAfterAll ==
    correlations # None =>
        /\ multi_pc = "individual" => (total_kelly = NotRun /\ results = <<>>)
        /\ multi_pc \in {"scale", "create", "done"} =>
              /\ pc = "idle"
              /\ Len(individual_kellys) = Len(opportunities)
              /\ total_kelly = SumKellys(IndividualFractions)
        /\ multi_pc \in {"create", "done"} =>
              LET budget == self.max_correlation_exposure
                  factor == RoundToFloat(Div(budget, total_kelly))
              IN  \A j \in DOMAIN opportunities :
                      individual_kellys[j] =
                          IF Gt(total_kelly, budget)
                          THEN RoundToFloat(Mul(IndividualFractions[j], factor))
                          ELSE IndividualFractions[j]
        /\ multi_pc = "done" =>
              \A j \in DOMAIN opportunities :
                  DictGet(results, opportunities[j].market_id).adjusted_fraction =
                      individual_kellys[j]

(* A batch of two has been scaled down, the second opportunity having the   *)
(* larger fraction.                                                         *)
C26_Witness ==
    /\ multi_pc = "done" /\ correlations # None
    /\ Len(opportunities) = 2
    /\ Gt(total_kelly, self.max_correlation_exposure)
    /\ Gt(self.max_correlation_exposure, Zero)
    /\ Gt(results[2].value.adjusted_fraction, results[1].value.adjusted_fraction)
    /\ Gt(results[1].value.adjusted_fraction, Zero)

(* The numbers and the recommendation of a KellyResult. *)
Numeric(r) ==
    <<r.kelly_fraction, r.adjusted_fraction, r.expected_value, r.confidence_adjustment,
      r.risk_adjustment, r.final_position_size, r.recommendation>>

(* The opportunity o under another market_id. *)
Anonymous(o) == [o EXCEPT !.market_id = "any"]

(* What a batch call with a matrix returns, from the engine and the         *)
(* opportunities alone: the individual fractions, scaled if their sum       *)
(* exceeds the budget, with the expected value of each opportunity.         *)
CorrelatedReference(j) ==
    LET T == SumKellys([n \in DOMAIN opportunities |->
                 SingleEvaluation(self, Anonymous(opportunities[n]), One, NoPositions).adjusted_fraction])
        own == SingleEvaluation(self, Anonymous(opportunities[j]), One, NoPositions).adjusted_fraction
        budget == self.max_correlation_exposure
        k == IF Gt(T, budget) THEN RoundToFloat(Mul(own, RoundToFloat(Div(budget, T)))) ELSE own
        ev == _calculate_expected_value(self, Anonymous(opportunities[j]))
    IN  <<k, k, ev, Zero, Zero, k, _generate_recommendation(self, k, ev, Anonymous(opportunities[j]))>>

(* C27: the numbers returned do not depend on market_id, on the bankroll or *)
(* on the contents of the correlation matrix: evaluations that differ only  *)
(* in market_id and bankroll return the same numbers and recommendation,    *)
(* and batch calls that differ only in the values of the matrix return the  *)
(* same results.                                                            *)
C27_IdBankrollAndMatrixIgnored ==
    /\ pc = "done" =>
          Numeric(result) = Numeric(SingleEvaluation(self, Anonymous(opportunity), One,
                                                     existing_positions))
    /\ (multi_pc = "done" /\ correlations = None) =>
          \A j, n \in DOMAIN opportunities :
              Anonymous(opportunities[j]) = Anonymous(opportunities[n]) =>
                  Numeric(DictGet(results, opportunities[j].market_id)) =
                      Numeric(DictGet(results, opportunities[n].market_id))
    /\ (multi_pc = "done" /\ correlations # None) =>
          \A j \in DOMAIN opportunities :
              Numeric(DictGet(results, opportunities[j].market_id)) = CorrelatedReference(j)

(* A batch call with the matrix of ones and the smaller bankroll has        *)
(* returned two scaled positions for one opportunity under two market_ids.  *)
C27_Witness ==
    /\ multi_pc = "done" /\ correlations = "ones"
    /\ batch_bankroll = R(50, 1)
    /\ Len(opportunities) = 2
    /\ Anonymous(opportunities[1]) = Anonymous(opportunities[2])
    /\ Gt(total_kelly, self.max_correlation_exposure)
    /\ Gt(results[1].value.final_position_size, Zero)

(* What C28 says of one returned result r for the opportunity o. *)
NeverBuyNo(slf, r, o) ==
    LET valid == _validate_opportunity(slf, o)
        above == Gt(o.probability_estimate, o.market_price)
    IN  /\ r.recommendation # "BUY_NO"
        /\ (r.recommendation # "HOLD" /\ Ge(r.final_position_size, R(5, 100))) =>
              r.recommendation = "BUY_YES"
        /\ Ge(r.final_position_size, R(5, 100)) =>
              (valid /\ Gt(_calculate_base_kelly(slf, o), Zero))
        /\ valid =>
              /\ Gt(_calculate_base_kelly(slf, o), Zero) <=> above
              /\ Gt(_calculate_expected_value(slf, o), Zero) <=> above
              /\ (r.recommendation = "HOLD") <=> Lt(r.final_position_size, R(1, 100))

(* C28: neither entry point ever returns BUY_NO: a final fraction of at     *)
(* least 0.05 implies a positive base Kelly, which holds exactly when       *)
(* probability_estimate > market_price, that is when expected_value > 0; so *)
(* every result with a fraction of at least 0.05 that is not HOLD is        *)
(* BUY_YES, and for a valid opportunity the recommendation is HOLD exactly  *)
(* when final_position_size < 0.01.                                         *)
C28_NeverBuyNo ==
    /\ pc = "done" =>
          /\ NeverBuyNo(self, result, opportunity)
          /\ _validate_opportunity(self, opportunity) =>
                /\ base_kelly = _calculate_base_kelly(self, opportunity)
                /\ expected_value = _calculate_expected_value(self, opportunity)
    /\ multi_pc = "done" =>
          \A j \in DOMAIN opportunities :
              NeverBuyNo(self, DictGet(results, opportunities[j].market_id), opportunities[j])

(* A batch call with a matrix has returned a scaled position of at least    *)
(* 0.05, recommended BUY_YES, next to a HOLD.                               *)
C28_Witness ==
    /\ multi_pc = "done" /\ correlations # None
    /\ Len(opportunities) = 2
    /\ Gt(total_kelly, self.max_correlation_exposure)
    /\ \E j, n \in DOMAIN results :
          /\ results[j].value.recommendation = "BUY_YES"
          /\ Ge(results[j].value.final_position_size, R(5, 100))
          /\ results[n].value.recommendation = "HOLD"

C30_MonotoneInConfidence ==
    (pc = "done" /\ _validate_opportunity(self, opportunity)) =>
        \A c2 \in Confidences \cup {R(9, 10)} :
            LET higher == [opportunity EXCEPT !.confidence_level = c2]
            IN  (_validate_opportunity(self, higher) /\ Le(opportunity.confidence_level, c2)) =>
                    Le(result.final_position_size,
                       SingleEvaluation(self, higher, bankroll, existing_positions).final_position_size)

====
